---- MODULE Spec2Model ----
(***************************************************************************)
(* Model of the WB Promote optimizer of wildberries-cli (src/tmp.py) and   *)
(* of the remote-call dispatcher it uses (src/wildberries_cli/client.py).  *)
(*                                                                         *)
(* Numbers.  Python floats are modelled by exact integers in hundredths:   *)
(* money in kopecks (spend_rub, cpa_rub, target_cpa, priority_score),      *)
(* percentages in hundredths of a percent (ctr, min_ctr), positions in     *)
(* hundredths (avg_pos, max_avg_pos).  Bids are integers of kopecks as in  *)
(* the source.  round() is Python's round-half-to-even.                    *)
(* An Optional value is the empty tuple (None) or a one-element tuple.     *)
(* Where a binary float and the exact rational could round differently (a  *)
(* product or quotient exactly halfway between two integers), the inputs   *)
(* of the specifications stay clear of the tie: current bids are no odd    *)
(* multiples of 5 and spends are whole multiples of 10 kopecks.            *)
(*                                                                         *)
(* Gateway.  A call handed to call_api either returns or raises; the SDK   *)
(* request models are taken to import and to build (from_dict) without     *)
(* error, and the retries of the HTTP layer below the SDK are not seen.    *)
(***************************************************************************)
EXTENDS Integers, Sequences, FiniteSets, TLC

VARIABLES
    \* ---- _recommend_nm_bid, one call ----
    ecfg,        \* the options of bids-plan that reach _recommend_nm_bid
    ecur,        \* current_bid_kopecks
    efloor,      \* min_bid_floor_kopecks (Optional)
    eperf,       \* perf, one aggregated (campaign, product) record
    epc,         \* position inside _recommend_nm_bid
    edec,        \* action / delta_pct / priority_score chosen by the rules
    ebid,        \* new_bid
    erec,        \* the value returned: None or <<recommendation>>
    \* ---- one invocation of snapshot, bids-plan or budget-plan ----
    wf,          \* the command
    opts,        \* its options, the configuration and the invocation date
    world,       \* what the gateway knows: campaigns, products, statistics
    pc,          \* position in the command
    loop_i,      \* index of the running loop (chunk, campaign)
    loop_j,      \* index of the inner loop (product chunk)
    attempt,     \* the attempt of call_with_retry, 0-based
    ncalls,      \* remote functions invoked so far, by kind
    period,      \* None or <<[start, end, dates, days]>> of _resolve_date_range
    advert_rows, \* campaign ids of the adverts fetched, in order
    fetched,     \* [stats, budgets, min_bids]: the keys of the maps filled
    recommendations,
    payload,     \* payload["bids"]
    api_result,  \* None, or <<results>> of _apply_bids_patch
    submitted,   \* the request bodies handed to api_advert_v1_bids_patch
    err,         \* None or <<[type, status_code]>> printed by print_error
    emitted,     \* None or <<document kind>> printed by emit
    exit_code,   \* None while running, <<0>> on return, <<1>> on typer.Exit(1)
    \* ---- the planning loop of budget-plan ----
    bopts,       \* the options of budget-plan and day_count
    bcamps,      \* advert_rows with stats_map and budgets_map: per campaign
                 \* its stat and its budget, each Optional
    bi,          \* index of the campaign the loop is at
    bplans,      \* plans
    bpc,         \* position in the command
    bout,        \* None or <<plans>> as emitted
    \* ---- one call of call_with_retry ----
    rretries,    \* cfg.retries
    rattempt,    \* attempt, the loop variable
    rhist,       \* what the invocations of fn did so far: "ok" or the
                 \* status of the exception, None or <<status>>
    rpc,         \* "call", "sleep", "returned" or "exited"
    rerr,        \* None or <<error type printed>>
    \* ---- _aggregate_keyword_rows_by_nm and _campaign_metrics ----
    arows,       \* rows
    astat,       \* the stat handed to _campaign_metrics
    ai,          \* index of the row the first loop is at
    agrouped,    \* grouped: the keys in order of insertion and their cur
    apc,         \* "rows", "finalize", "metrics" or "done"
    ametrics,    \* None or <<what _campaign_metrics returned>>
    \* ---- config show ----
    ctoken,      \* cfg.api_token: None or <<text>>, a text being a sequence
                 \* of characters
    creveal,     \* --reveal
    cpc,         \* "show" or "done"
    cshown       \* None or <<the api_token of the printed dict>>

evars == <<ecfg, ecur, efloor, eperf, epc, edec, ebid, erec>>

wvars == <<wf, opts, world, pc, loop_i, loop_j, attempt, ncalls, period, advert_rows,
           fetched, recommendations, payload, api_result, submitted, err,
           emitted, exit_code>>

bvars == <<bopts, bcamps, bi, bplans, bpc, bout>>

rvars == <<rretries, rattempt, rhist, rpc, rerr>>

avars == <<arows, astat, ai, agrouped, apc, ametrics>>

cvars == <<ctoken, creveal, cpc, cshown>>

vars == <<ecfg, ecur, efloor, eperf, epc, edec, ebid, erec,
          wf, opts, world, pc, loop_i, loop_j, attempt, ncalls, period, advert_rows,
          fetched, recommendations, payload, api_result, submitted, err,
          emitted, exit_code,
          bopts, bcamps, bi, bplans, bpc, bout,
          rretries, rattempt, rhist, rpc, rerr,
          arows, astat, ai, agrouped, apc, ametrics,
          ctoken, creveal, cpc, cshown>>

----------------------------------------------------------------------------
\* Optional values and small arithmetic helpers

None == <<>>

Some(v) == <<v>>

IsNone(x) == x = <<>>

Val(x) == x[1]

Max(a, b) == IF a >= b THEN a ELSE b

Min(a, b) == IF a <= b THEN a ELSE b

Abs(a) == IF a < 0 THEN -a ELSE a

\* Python round(n / d) for an integer n and d > 0: nearest integer, a tie
\* goes to the even neighbour.  \div is the floor division, % is in 0..d-1.
RoundHalfEven(n, d) ==
    LET q == n \div d
        r == n % d
    IN  IF 2 * r < d THEN q
        ELSE IF 2 * r > d THEN q + 1
        ELSE IF q % 2 = 0 THEN q ELSE q + 1

----------------------------------------------------------------------------
\* Defaults of the bids-plan options

DefaultMinClicks == 15

DefaultKillClicks == 35

DefaultMaxAvgPos == 600

DefaultIncreasePct == 10

DefaultDecreasePct == 10

DefaultStrongDecreasePct == 20

DefaultMinOrdersForIncrease == 2

DefaultBidStep == 10

\* views needed to pass the gate without clicks: max(1000, min_clicks * 30)
GateMinViews == 1000

GateViewsPerClick == 30

----------------------------------------------------------------------------
\* Finalisation of one aggregated (campaign, product) group: the ratios of
\* _aggregate_keyword_rows_by_nm.  spend is in kopecks, pos_sum is the sum of
\* position (in hundredths) times weight, pos_weight the sum of the weights.
FinalizePerf(views, clicks, orders, spend, pos_sum, pos_weight) ==
    [views     |-> views,
     clicks    |-> clicks,
     orders    |-> orders,
     spend_rub |-> spend,
     ctr       |-> IF views > 0 THEN Some(RoundHalfEven(clicks * 10000, views)) ELSE None,
     cpc_rub   |-> IF clicks > 0 THEN Some(RoundHalfEven(spend, clicks)) ELSE None,
     cpa_rub   |-> IF orders > 0 THEN Some(RoundHalfEven(spend, orders)) ELSE None,
     avg_pos   |-> IF pos_weight > 0 THEN Some(RoundHalfEven(pos_sum, pos_weight)) ELSE None]

----------------------------------------------------------------------------
\* _recommend_nm_bid: the gate, the rules, the bid computation

\* a gate that looks at the clicks only
GateRejects_ClicksOnly(perf, cfg) == perf.clicks < cfg.min_clicks

\* if clicks < min_clicks and views < max(1000, min_clicks * 30): return None
GateRejects(perf, cfg) ==
    /\ perf.clicks < cfg.min_clicks
    /\ perf.views < Max(GateMinViews, cfg.min_clicks * GateViewsPerClick)

\* orders == 0 and clicks >= kill_clicks
KillCond(perf, cfg) ==
    /\ perf.orders = 0
    /\ perf.clicks >= cfg.kill_clicks

\* target_cpa is not None and orders > 0 and cpa_rub is not None
\* and cpa_rub > target_cpa * 1.15
CpaCond(perf, cfg) ==
    /\ ~IsNone(cfg.target_cpa)
    /\ perf.orders > 0
    /\ ~IsNone(perf.cpa_rub)
    /\ Val(perf.cpa_rub) * 100 > Val(cfg.target_cpa) * 115

\* min_ctr is not None and orders == 0 and clicks >= min_clicks
\* and ctr is not None and ctr < min_ctr
CtrCond(perf, cfg) ==
    /\ ~IsNone(cfg.min_ctr)
    /\ perf.orders = 0
    /\ perf.clicks >= cfg.min_clicks
    /\ ~IsNone(perf.ctr)
    /\ Val(perf.ctr) < Val(cfg.min_ctr)

\* IncreaseCond without the test of orders against min_orders_for_increase.
IncreaseCond_NoOrders(perf, cfg) ==
    /\ IsNone(cfg.target_cpa)
    /\ ~IsNone(cfg.max_avg_pos)
    /\ ~IsNone(perf.avg_pos)
    /\ Val(perf.avg_pos) > Val(cfg.max_avg_pos)

\* the last elif and the if inside it
IncreaseCond(perf, cfg) ==
    LET good_by_cpa ==
            \/ IsNone(cfg.target_cpa)
            \/ /\ ~IsNone(perf.cpa_rub)
               /\ Val(perf.cpa_rub) * 100 <= Val(cfg.target_cpa) * 85
        weak_position ==
            /\ ~IsNone(cfg.max_avg_pos)
            /\ ~IsNone(perf.avg_pos)
            /\ Val(perf.avg_pos) > Val(cfg.max_avg_pos)
    IN  /\ perf.orders >= cfg.min_orders_for_increase
        /\ good_by_cpa
        /\ (weak_position \/ ~IsNone(cfg.target_cpa))

Hold == [action |-> "hold", delta_pct |-> 0, priority_score |-> 0]

\* Decide with the CTR-floor rule tried before the kill rule.
Decide_CtrBeforeKill(perf, cfg) ==
    IF CtrCond(perf, cfg) THEN
        [action |-> "decrease",
         delta_pct |-> -Abs(cfg.decrease_pct),
         priority_score |-> perf.spend_rub
                            + Max(0, (Val(cfg.min_ctr) - Val(perf.ctr)) * 10)]
    ELSE IF KillCond(perf, cfg) THEN
        [action |-> "decrease",
         delta_pct |-> -Abs(cfg.strong_decrease_pct),
         priority_score |-> perf.spend_rub + perf.clicks * 100]
    ELSE Hold

\* The if / elif chain of the rules.  priority_score is the value after
\* round(priority_score, 2), in hundredths.
Decide(perf, cfg) ==
    IF KillCond(perf, cfg) THEN
        [action |-> "decrease",
         delta_pct |-> -Abs(cfg.strong_decrease_pct),
         priority_score |-> perf.spend_rub + perf.clicks * 100]
    ELSE IF CpaCond(perf, cfg) THEN
        [action |-> "decrease",
         delta_pct |-> -Abs(cfg.decrease_pct),
         priority_score |-> perf.spend_rub
                            + Max(0, Val(perf.cpa_rub) - Val(cfg.target_cpa))]
    ELSE IF CtrCond(perf, cfg) THEN
        [action |-> "decrease",
         delta_pct |-> -Abs(cfg.decrease_pct),
         priority_score |-> perf.spend_rub
                            + Max(0, (Val(cfg.min_ctr) - Val(perf.ctr)) * 10)]
    ELSE IF IncreaseCond(perf, cfg) THEN
        [action |-> "increase",
         delta_pct |-> Abs(cfg.increase_pct),
         priority_score |-> perf.orders * 1000
                            + RoundHalfEven(Max(0, perf.spend_rub), 10)]
    ELSE Hold

\* _round_to_step rounding down instead of to the nearest multiple.
_round_to_step_down(value, step) ==
    IF step <= 1 THEN value ELSE (value \div step) * step

\* round(value / step) * step, or value itself when step <= 1
_round_to_step(value, step) ==
    IF step <= 1 THEN value ELSE RoundHalfEven(value, step) * step

\* new_bid = int(round(current_bid_kopecks * (1 + (delta_pct / 100.0))))
\* new_bid = _round_to_step(max(1, new_bid), max(1, bid_step))
BidAfterDelta(current_bid, delta_pct, bid_step) ==
    _round_to_step(Max(1, RoundHalfEven(current_bid * (100 + delta_pct), 100)),
                   Max(1, bid_step))

\* if min_bid_floor_kopecks is not None: ... if new_bid < floor_applied: ...
BidAfterFloor(new_bid, floor, bid_step) ==
    IF ~IsNone(floor) /\ new_bid < Val(floor)
    THEN _round_to_step(Val(floor), Max(1, bid_step))
    ELSE new_bid

\* if max_bid_kopecks is not None and new_bid > max_bid_kopecks: ...
BidAfterCap(new_bid, max_bid, bid_step) ==
    IF ~IsNone(max_bid) /\ new_bid > Val(max_bid)
    THEN _round_to_step(Val(max_bid), Max(1, bid_step))
    ELSE new_bid

\* IsNoOp that never suppresses.
IsNoOp_Never(new_bid, current_bid) == FALSE

\* if new_bid == current_bid_kopecks: return None
IsNoOp(new_bid, current_bid) == new_bid = current_bid

\* the dict returned at the end of _recommend_nm_bid
MakeRec(cid, nm_id, placement, current_bid, new_bid, dec, floor, perf) ==
    [campaign_id           |-> cid,
     nm_id                 |-> nm_id,
     placement             |-> placement,
     action                |-> dec.action,
     priority_score        |-> dec.priority_score,
     current_bid_kopecks   |-> current_bid,
     new_bid_kopecks       |-> new_bid,
     delta_kopecks         |-> new_bid - current_bid,
     min_bid_floor_kopecks |-> floor,
     perf                  |-> perf]

\* The whole function: None or <<recommendation>>.
_recommend_nm_bid(cid, nm_id, placement, current_bid, perf, cfg, floor) ==
    IF GateRejects(perf, cfg) THEN None
    ELSE LET dec == Decide(perf, cfg)
             b0  == BidAfterDelta(current_bid, dec.delta_pct, cfg.bid_step)
             b1  == BidAfterFloor(b0, floor, cfg.bid_step)
             b2  == BidAfterCap(b1, cfg.max_bid_kopecks, cfg.bid_step)
         IN  IF dec.action = "hold" THEN None
             ELSE IF IsNoOp(b2, current_bid) THEN None
             ELSE Some(MakeRec(cid, nm_id, placement, current_bid, b2, dec, floor, perf))

----------------------------------------------------------------------------
\* The two halves of the state at rest

CallKinds == {"adverts", "fullstats", "budgets", "normquery", "bids_min", "bids_patch"}

\* the engine is not running
EngineIdle ==
    /\ ecfg = <<>>
    /\ ecur = 0
    /\ efloor = None
    /\ eperf = <<>>
    /\ epc = "idle"
    /\ edec = Hold
    /\ ebid = 0
    /\ erec = None

\* the locals of a command before its first statement
FreshLocals ==
    /\ loop_i = 0
    /\ loop_j = 0
    /\ attempt = None
    /\ ncalls = [k \in CallKinds |-> 0]
    /\ period = None
    /\ advert_rows = <<>>
    /\ fetched = [stats |-> {}, budgets |-> {}, min_bids |-> {}]
    /\ recommendations = <<>>
    /\ payload = <<>>
    /\ api_result = None
    /\ submitted = <<>>
    /\ err = None
    /\ emitted = None
    /\ exit_code = None

\* no command is running
WorkflowIdle ==
    /\ wf = "none"
    /\ opts = <<>>
    /\ world = <<>>
    /\ pc = "idle"
    /\ FreshLocals

\* the planning loop of budget-plan is not running
BudgetIdle ==
    /\ bopts = <<>>
    /\ bcamps = <<>>
    /\ bi = 0
    /\ bplans = <<>>
    /\ bpc = "idle"
    /\ bout = None

\* no call of call_with_retry is looked at on its own
RetryIdle ==
    /\ rretries = 0
    /\ rattempt = 0
    /\ rhist = <<>>
    /\ rpc = "idle"
    /\ rerr = None

\* neither record builder is running
AggIdle ==
    /\ arows = <<>>
    /\ astat = <<>>
    /\ ai = 0
    /\ agrouped = <<>>
    /\ apc = "idle"
    /\ ametrics = None

\* config show is not running
ConfigIdle ==
    /\ ctoken = None
    /\ creveal = FALSE
    /\ cpc = "idle"
    /\ cshown = None

\* the parts of the state that only SpecRetry, SpecAgg and SpecConfig move
HelpersIdle == RetryIdle /\ AggIdle /\ ConfigIdle

----------------------------------------------------------------------------
\* One call of _recommend_nm_bid, statement by statement

\* Bounds of the inputs
MaxOrders == 2

MaxMinOrders == 2

ClickValues == {0, 20, 40}

ViewValues == {500, 1200, 2000}

\* --min-clicks: the default, and one whose thirtyfold exceeds 1000 views
MinClicksValues == {DefaultMinClicks, 50}

SpendValues == {4500, 30000}

\* (sum of position * weight, sum of weights): no position at all, or 8.00
PosValues == {<<0, 0>>, <<160000, 200>>}

TargetCpaValues == {None, Some(10000)}

MinCtrValues == {None, Some(500)}

StepValues == {0, 10, 50}

MaxBidValues == {None, Some(156), Some(300)}

FloorValues == {None, Some(174), Some(200)}

CurrentBidValues == {0, 4, 100, 200}

EngineConfigs ==
    [target_cpa              : TargetCpaValues,
     min_clicks              : MinClicksValues,
     kill_clicks             : {DefaultKillClicks},
     min_ctr                 : MinCtrValues,
     max_avg_pos             : {Some(DefaultMaxAvgPos)},
     increase_pct            : {DefaultIncreasePct},
     decrease_pct            : {DefaultDecreasePct, -DefaultDecreasePct},
     strong_decrease_pct     : {DefaultStrongDecreasePct},
     min_orders_for_increase : 0..MaxMinOrders,
     bid_step                : StepValues,
     max_bid_kopecks         : MaxBidValues]

EnginePerfs ==
    {FinalizePerf(v, c, o, s, p[1], p[2]) :
        v \in ViewValues, c \in ClickValues, o \in 0..MaxOrders,
        s \in SpendValues, p \in PosValues}

EngineInit ==
    /\ ecfg \in EngineConfigs
    /\ ecur \in CurrentBidValues
    /\ efloor \in FloorValues
    /\ eperf \in EnginePerfs
    /\ epc = "gate"
    /\ edec = Hold
    /\ ebid = 0
    /\ erec = None
    /\ WorkflowIdle
    /\ BudgetIdle
    /\ HelpersIdle

\* lines 727-728
EGate ==
    /\ epc = "gate"
    /\ epc' = IF GateRejects(eperf, ecfg) THEN "returned" ELSE "rules"
    /\ UNCHANGED <<ecfg, ecur, efloor, eperf, edec, ebid, erec>>
    /\ UNCHANGED <<wvars, bvars, rvars, avars, cvars>>

\* lines 730-774
ERules ==
    /\ epc = "rules"
    /\ edec' = Decide(eperf, ecfg)
    /\ epc' = IF edec'.action = "hold" THEN "returned" ELSE "delta"
    /\ UNCHANGED <<ecfg, ecur, efloor, eperf, ebid, erec>>
    /\ UNCHANGED <<wvars, bvars, rvars, avars, cvars>>

\* lines 776-777
EDelta ==
    /\ epc = "delta"
    /\ ebid' = BidAfterDelta(ecur, edec.delta_pct, ecfg.bid_step)
    /\ epc' = "floor"
    /\ UNCHANGED <<ecfg, ecur, efloor, eperf, edec, erec>>
    /\ UNCHANGED <<wvars, bvars, rvars, avars, cvars>>

\* lines 779-783
EFloor ==
    /\ epc = "floor"
    /\ ebid' = BidAfterFloor(ebid, efloor, ecfg.bid_step)
    /\ epc' = "cap"
    /\ UNCHANGED <<ecfg, ecur, efloor, eperf, edec, erec>>
    /\ UNCHANGED <<wvars, bvars, rvars, avars, cvars>>

\* lines 785-786
ECap ==
    /\ epc = "cap"
    /\ ebid' = BidAfterCap(ebid, ecfg.max_bid_kopecks, ecfg.bid_step)
    /\ epc' = "noop"
    /\ UNCHANGED <<ecfg, ecur, efloor, eperf, edec, erec>>
    /\ UNCHANGED <<wvars, bvars, rvars, avars, cvars>>

\* lines 788-816
EReturn ==
    /\ epc = "noop"
    /\ erec' = IF IsNoOp(ebid, ecur) THEN None
               ELSE Some(MakeRec(1, 1, "search", ecur, ebid, edec, efloor, eperf))
    /\ epc' = "returned"
    /\ UNCHANGED <<ecfg, ecur, efloor, eperf, edec, ebid>>
    /\ UNCHANGED <<wvars, bvars, rvars, avars, cvars>>

EngineNext ==
    \/ EGate
    \/ ERules
    \/ EDelta
    \/ EFloor
    \/ ECap
    \/ EReturn

SpecEngine == EngineInit /\ [][EngineNext]_vars

\* the recommendation a finished call returned, if any
Emitted == epc = "returned" /\ ~IsNone(erec)

EmittedRec == Val(erec)

----------------------------------------------------------------------------
\* Calendar dates.  A date text "YYYY-MM-DD" is the triple <<YYYY, MM, DD>>;
\* date.fromisoformat raises ValueError when the triple is no calendar day.

IsLeap(y) == (y % 4 = 0 /\ y % 100 # 0) \/ y % 400 = 0

DaysInMonth(y, m) ==
    CASE m \in {1, 3, 5, 7, 8, 10, 12} -> 31
      [] m \in {4, 6, 9, 11} -> 30
      [] OTHER -> IF IsLeap(y) THEN 29 ELSE 28

\* whether date.fromisoformat parses the text
IsIsoDate(t) == t[2] \in 1..12 /\ t[3] \in 1..DaysInMonth(t[1], t[2])

RECURSIVE DaysBeforeMonth(_, _)
DaysBeforeMonth(y, m) ==
    IF m <= 1 THEN 0 ELSE DaysBeforeMonth(y, m - 1) + DaysInMonth(y, m - 1)

DaysBeforeYear(y) ==
    (y - 1) * 365 + (y - 1) \div 4 - (y - 1) \div 100 + (y - 1) \div 400

\* date.toordinal(): the day number, on which timedelta arithmetic works
ToOrdinal(t) == DaysBeforeYear(t[1]) + DaysBeforeMonth(t[1], t[2]) + t[3]

\* the years the model's dates lie in
Years == 2025..2027

\* date.fromordinal(n).isoformat()
FromOrdinal(n) ==
    LET y == CHOOSE yy \in Years : DaysBeforeYear(yy) < n /\ n <= DaysBeforeYear(yy + 1)
        r == n - DaysBeforeYear(y)
        m == CHOOSE mm \in 1..12 :
                 DaysBeforeMonth(y, mm) < r /\ r <= DaysBeforeMonth(y, mm) + DaysInMonth(y, mm)
    IN  <<y, m, r - DaysBeforeMonth(y, m)>>

\* the longest range the optimizer commands accept, in days
MaxRangeDays == 31

\* _resolve_date_range: [ok |-> FALSE] after print_error("validation_error")
\* and typer.Exit(1), else the tuple returned.
\* the resolver without its limit on the length of the range
_resolve_date_range_NoLimit(date_from, date_to, default_days, today) ==
    IF IsNone(date_from) # IsNone(date_to) THEN [ok |-> FALSE]
    ELSE IF ~IsNone(date_from) /\ ~(IsIsoDate(Val(date_from)) /\ IsIsoDate(Val(date_to)))
    THEN [ok |-> FALSE]
    ELSE LET end   == IF IsNone(date_from) THEN ToOrdinal(today) - 1
                      ELSE ToOrdinal(Val(date_to))
             start == IF IsNone(date_from) THEN end - Max(0, default_days - 1)
                      ELSE ToOrdinal(Val(date_from))
             days  == end - start + 1
         IN  IF start > end THEN [ok |-> FALSE]
             ELSE [ok    |-> TRUE,
                   start |-> FromOrdinal(start),
                   end   |-> FromOrdinal(end),
                   dates |-> [k \in 1..days |-> FromOrdinal(start + k - 1)],
                   days  |-> days]

\* the resolver with a default range that ends today instead of yesterday
_resolve_date_range_EndsToday(date_from, date_to, default_days, today) ==
    IF IsNone(date_from) # IsNone(date_to) THEN [ok |-> FALSE]
    ELSE IF ~IsNone(date_from) /\ ~(IsIsoDate(Val(date_from)) /\ IsIsoDate(Val(date_to)))
    THEN [ok |-> FALSE]
    ELSE LET end   == IF IsNone(date_from) THEN ToOrdinal(today)
                      ELSE ToOrdinal(Val(date_to))
             start == IF IsNone(date_from) THEN end - Max(0, default_days - 1)
                      ELSE ToOrdinal(Val(date_from))
             days  == end - start + 1
         IN  IF start > end THEN [ok |-> FALSE]
             ELSE IF days > MaxRangeDays THEN [ok |-> FALSE]
             ELSE [ok    |-> TRUE,
                   start |-> FromOrdinal(start),
                   end   |-> FromOrdinal(end),
                   dates |-> [k \in 1..days |-> FromOrdinal(start + k - 1)],
                   days  |-> days]

_resolve_date_range(date_from, date_to, default_days, today) ==
    IF IsNone(date_from) # IsNone(date_to) THEN [ok |-> FALSE]
    ELSE IF ~IsNone(date_from) /\ ~(IsIsoDate(Val(date_from)) /\ IsIsoDate(Val(date_to)))
    THEN [ok |-> FALSE]
    ELSE LET end   == IF IsNone(date_from) THEN ToOrdinal(today) - 1
                      ELSE ToOrdinal(Val(date_to))
             start == IF IsNone(date_from) THEN end - Max(0, default_days - 1)
                      ELSE ToOrdinal(Val(date_from))
             days  == end - start + 1
         IN  IF start > end THEN [ok |-> FALSE]
             ELSE IF days > MaxRangeDays THEN [ok |-> FALSE]
             ELSE [ok    |-> TRUE,
                   start |-> FromOrdinal(start),
                   end   |-> FromOrdinal(end),
                   dates |-> [k \in 1..days |-> FromOrdinal(start + k - 1)],
                   days  |-> days]

\* default_days of the three commands
DefaultDaysSnapshot == 7

DefaultDaysBidsPlan == 3

DefaultDaysBudgetPlan == 7

DefaultDays(command) ==
    CASE command = "snapshot" -> DefaultDaysSnapshot
      [] command = "bids_plan" -> DefaultDaysBidsPlan
      [] OTHER -> DefaultDaysBudgetPlan

----------------------------------------------------------------------------
\* --placement

\* placement.strip().lower(), on the texts the model passes
StripLower(text) ==
    CASE text = " Search " -> "search"
      [] text = "COMBINED" -> "combined"
      [] text = "Top" -> "top"
      [] OTHER -> text

allowed_placements == {"auto", "search", "recommendations", "combined"}

\* the advert every known campaign id stands for: a manual-bid cpm campaign
\* shown in search, its products 1..nms with a search bid of 200 kopecks
AdvertOf(cid, w) ==
    [id          |-> cid,
     bid_type    |-> "manual",
     settings    |-> [payment_type |-> "cpm",
                      placements   |-> [search |-> TRUE, recommendations |-> FALSE]],
     nm_settings |-> [k \in 1..w.nms |->
                        [nm_id |-> k,
                         bids_kopecks |-> [search |-> Some(200), recommendations |-> None]]]]

_choose_bid_placement(advert, placement) ==
    LET choice == StripLower(placement)
    IN  IF choice # "auto" THEN choice
        ELSE IF advert.bid_type = "unified" THEN "combined"
        ELSE IF advert.settings.placements.search THEN "search"
        ELSE IF advert.settings.placements.recommendations THEN "recommendations"
        ELSE "search"

_placement_types_for_min_bids(advert) ==
    IF advert.bid_type = "unified" THEN <<"combined">>
    ELSE LET a == IF advert.settings.placements.search THEN <<"search">> ELSE <<>>
             b == IF advert.settings.placements.recommendations
                  THEN <<"recommendation">> ELSE <<>>
         IN  IF a \o b = <<>> THEN <<"search">> ELSE a \o b

_current_nm_bid_kopecks(nm_settings, placement) ==
    LET bids == nm_settings.bids_kopecks
    IN  IF placement = "combined" THEN
            IF IsNone(bids.search) THEN bids.recommendations
            ELSE IF IsNone(bids.recommendations) THEN bids.search
            ELSE Some(Max(Val(bids.search), Val(bids.recommendations)))
        ELSE IF placement = "recommendations" THEN bids.recommendations
        ELSE bids.search

----------------------------------------------------------------------------
\* The gateway and the inputs of one invocation

\* the batch size of every chunked call
ChunkSize == 50

\* _iter_chunks(items, size)
_iter_chunks(items, size) ==
    IF size <= 0 THEN <<items>>
    ELSE [k \in 1..((Len(items) + size - 1) \div size) |->
             SubSeq(items, (k - 1) * size + 1, Min(k * size, Len(items)))]

\* Bounds of the inputs
MaxCampaigns == 51

MaxNms == 101

MaxProducts == 110

MaxRetries == 2

MaxChanges == 1

Commands == {"snapshot", "bids_plan", "budget_plan"}

\* <<--from, --to, today>> : neither, only one, unparsable, start > end,
\* 32 days, 31 days
DateArgs ==
    {<<None, None, <<2026, 3, 1>>>>,
     <<None, None, <<2026, 1, 2>>>>,
     <<Some(<<2026, 1, 1>>), None, <<2026, 3, 1>>>>,
     <<None, Some(<<2026, 1, 1>>), <<2026, 3, 1>>>>,
     <<Some(<<2026, 2, 30>>), Some(<<2026, 3, 1>>), <<2026, 3, 1>>>>,
     <<Some(<<2026, 1, 2>>), Some(<<2026, 1, 1>>), <<2026, 3, 1>>>>,
     <<Some(<<2026, 1, 1>>), Some(<<2026, 2, 1>>), <<2026, 3, 1>>>>,
     <<Some(<<2026, 1, 1>>), Some(<<2026, 1, 31>>), <<2026, 3, 1>>>>}

PlacementValues == {"auto", " Search ", "Top"}

IdLists == {<<1>>, <<1, 2>>, <<1, 1>>, [k \in 1..MaxCampaigns |-> k]}

\* the campaigns the gateway knows: all of them, or all but campaign 1
KnownSets == {1..MaxCampaigns, 2..MaxCampaigns}

NmCounts == {0, 1, ChunkSize + 1, MaxNms}

StatsPatterns == {"all", "mixed", "ties", "none"}

MinBidValues == {150}

Worlds ==
    [known : KnownSets, nms : NmCounts, stats : StatsPatterns, min_bid : MinBidValues]

\* exceptions of a remote function: no status attribute, or an HTTP status
FailStatuses == {None, Some(404), Some(429), Some(503)}

RetryableStatuses == {429, 500, 502, 503, 504}

BidsPlanOptions ==
    [date_from : {None}, date_to : {None}, today : {<<2026, 3, 1>>},
     placement : PlacementValues,
     apply : BOOLEAN,
     max_changes : {None} \cup {Some(k) : k \in -1..MaxChanges},
     use_min_bids : BOOLEAN,
     include_budget : {TRUE},
     ids : {Some(l) : l \in IdLists},
     api_token : BOOLEAN,
     retries : 1..MaxRetries]

RowsOptions ==
    [date_from : {None}, date_to : {None}, today : {<<2026, 3, 1>>},
     placement : {"auto"},
     apply : {FALSE},
     max_changes : {None},
     use_min_bids : {FALSE},
     include_budget : BOOLEAN,
     ids : {None} \cup {Some(l) : l \in IdLists},
     api_token : BOOLEAN,
     retries : 1..MaxRetries]

WithDates(o, d) == [o EXCEPT !.date_from = d[1], !.date_to = d[2], !.today = d[3]]

OptionsOf(command) == IF command = "bids_plan" THEN BidsPlanOptions ELSE RowsOptions

\* the options that go with every value of --from and --to
PlainOptions(command) ==
    {o \in OptionsOf(command) :
        o.ids = Some(<<1>>) /\ o.retries = 1 /\ o.api_token /\ o.max_changes = None}

\* a command line with --from/--to against few products, or one without them
\* against any account
Init ==
    /\ EngineIdle
    /\ BudgetIdle
    /\ HelpersIdle
    /\ wf \in Commands
    /\ world \in Worlds
    /\ \/ /\ opts \in {WithDates(o, d) : o \in PlainOptions(wf), d \in DateArgs}
          /\ world.nms = 1 /\ world.stats = "all"
       \/ opts \in OptionsOf(wf)
    /\ wf # "bids_plan" => (world.nms = 1 /\ world.stats = "all")
    /\ ~IsNone(opts.ids) => Len(Val(opts.ids)) * world.nms <= MaxProducts
    /\ pc = IF wf = "bids_plan" THEN "placement" ELSE "dates"
    /\ FreshLocals

----------------------------------------------------------------------------
\* Pure parts of the commands

Range(f) == {f[k] : k \in 1..Len(f)}

\* the option values of bids-plan that reach _recommend_nm_bid when only the
\* options of the model are given on the command line
DefaultEngineConfig ==
    [target_cpa              |-> None,
     min_clicks              |-> DefaultMinClicks,
     kill_clicks             |-> DefaultKillClicks,
     min_ctr                 |-> None,
     max_avg_pos             |-> Some(DefaultMaxAvgPos),
     increase_pct            |-> DefaultIncreasePct,
     decrease_pct            |-> DefaultDecreasePct,
     strong_decrease_pct     |-> DefaultStrongDecreasePct,
     min_orders_for_increase |-> DefaultMinOrdersForIncrease,
     bid_step                |-> DefaultBidStep,
     max_bid_kopecks         |-> None]

\* the aggregated keyword statistics of product k of a campaign: a product
\* with clicks and no order, a product with orders at a weak position, or no
\* statistics at all; in the pattern "ties" two kinds of products without
\* orders whose spend + clicks are equal and whose spends differ
NmPerf(w, cid, k) ==
    LET kill == FinalizePerf(2000, 40, 0, 4500, 0, 0)
        more == FinalizePerf(2000, 45, 0, 4000, 0, 0)
        good == FinalizePerf(2000, 40, 3, 30000, 160000, 200)
    IN  CASE w.stats = "none" -> None
          [] w.stats = "all" -> Some(kill)
          [] w.stats = "ties" -> IF (k + cid) % 2 = 0 THEN Some(more) ELSE Some(kill)
          [] OTHER -> IF k % 3 = 1 THEN Some(kill)
                      ELSE IF k % 3 = 2 THEN Some(good) ELSE None

\* _fetch_adverts_v2: the chunks asked for, None standing for "no ids"
AdvertChunks(ids) ==
    IF ~IsNone(ids) /\ Val(ids) # <<>>
    THEN LET c == _iter_chunks(Val(ids), ChunkSize) IN [k \in 1..Len(c) |-> Some(c[k])]
    ELSE <<None>>

\* the members of a set of ids in increasing order
SortedIds(S) ==
    <<>> \o [p \in 1..Cardinality(S) |->
                CHOOSE x \in S : Cardinality({y \in S : y <= x}) = p]

\* the adverts the gateway answers with: those it knows among the ids asked
\* for, one per id asked, or all it knows when no id is asked for
AdvertsResponse(chunk, w) ==
    IF IsNone(chunk) THEN SortedIds(w.known)
    ELSE SelectSeq(Val(chunk), LAMBDA c : c \in w.known)

\* _fetch_adverts_v2, lines 410-419: append the adverts not seen yet
AppendUnseen(out, adverts) ==
    LET fresh == SelectSeq([q \in 1..Len(adverts) |-> q],
                           LAMBDA q : /\ adverts[q] \notin Range(out)
                                      /\ \A r \in 1..(q - 1) : adverts[r] # adverts[q])
    IN  out \o [p \in 1..Len(fresh) |-> adverts[fresh[p]]]

\* the product ids _fetch_min_bid_map asks floors for, per campaign
NmIds(w) == [k \in 1..w.nms |-> k]

\* min_bid_map.get((cid, nm_id, placement_choice))
MinBidFloor(min_bids, w, cid, nm_id, placement_choice) ==
    LET types == _placement_types_for_min_bids(AdvertOf(cid, w))
        normalized == {IF types[k] = "recommendation" THEN "recommendations" ELSE types[k] :
                          k \in 1..Len(types)}
    IN  IF <<cid, nm_id>> \in min_bids /\ placement_choice \in normalized
        THEN Some(w.min_bid) ELSE None

\* bids-plan, lines 172-205: the recommendation of one product, if any
RecOfNm(o, w, min_bids, cid, k) ==
    LET advert  == AdvertOf(cid, w)
        choice  == _choose_bid_placement(advert, o.placement)
        current == _current_nm_bid_kopecks(advert.nm_settings[k], choice)
        perf    == NmPerf(w, cid, k)
    IN  IF advert.settings.payment_type # "cpm" THEN None
        ELSE IF IsNone(current) \/ IsNone(perf) THEN None
        ELSE _recommend_nm_bid(cid, k, choice, Val(current), Val(perf),
                               DefaultEngineConfig,
                               MinBidFloor(min_bids, w, cid, k, choice))

\* bids-plan, lines 164-205: for cid in ids, for nm_settings in the advert
GenRecs(o, w, min_bids) ==
    LET ids   == Val(o.ids)
        visit == [n \in 1..(Len(ids) * w.nms) |->
                     RecOfNm(o, w, min_bids, ids[((n - 1) \div w.nms) + 1],
                             ((n - 1) % w.nms) + 1)]
        kept  == SelectSeq(visit, LAMBDA r : ~IsNone(r))
    IN  [q \in 1..Len(kept) |-> Val(kept[q])]

\* the sort key without its second component
SortsBefore_PriorityOnly(a, b) == a.priority_score > b.priority_score

\* the sort key of lines 208-214, descending
SortsBefore(a, b) ==
    \/ a.priority_score > b.priority_score
    \/ /\ a.priority_score = b.priority_score
       /\ a.perf.spend_rub > b.perf.spend_rub

\* list.sort(key, reverse=True): stable, equal keys keep their order
SortRecs(recs) ==
    LET n == Len(recs)
        place == <<>> \o [q \in 1..n |->
                     Cardinality({r \in 1..n :
                         \/ SortsBefore(recs[r], recs[q])
                         \/ ~SortsBefore(recs[q], recs[r]) /\ r <= q})]
    IN  [p \in 1..n |-> recs[CHOOSE q \in 1..n : place[q] = p]]

\* a truncation that treats a limit of zero or less as no limit
Truncate_ZeroIsNone(recs, max_changes) ==
    IF IsNone(max_changes) \/ Val(max_changes) <= 0 THEN recs
    ELSE SubSeq(recs, 1, Min(Len(recs), Val(max_changes)))

\* recommendations[: max(0, max_changes)]
Truncate(recs, max_changes) ==
    IF IsNone(max_changes) THEN recs
    ELSE SubSeq(recs, 1, Min(Len(recs), Max(0, Val(max_changes))))

\* the campaign ids of a list of recommendations in the order of their first
\* appearance
FirstSeenIds(recs) ==
    LET firsts == SelectSeq([q \in 1..Len(recs) |-> q],
                            LAMBDA q : \A r \in 1..(q - 1) :
                                          recs[r].campaign_id # recs[q].campaign_id)
    IN  [p \in 1..Len(firsts) |-> recs[firsts[p]].campaign_id]

\* the payload without sorted(): the campaigns in the order of by_campaign
_build_bids_patch_payload_Unsorted(recs) ==
    LET cids == FirstSeenIds(recs)
        bids(cid) ==
            LET own == SelectSeq(recs, LAMBDA r : r.campaign_id = cid)
            IN  [q \in 1..Len(own) |->
                    [nm_id       |-> own[q].nm_id,
                     bid_kopecks |-> own[q].new_bid_kopecks,
                     placement   |-> own[q].placement]]
    IN  [q \in 1..Len(cids) |-> [advert_id |-> cids[q], nm_bids |-> bids(cids[q])]]

\* _build_bids_patch_payload: payload["bids"]
_build_bids_patch_payload(recs) ==
    LET cids == SortedIds({recs[q].campaign_id : q \in 1..Len(recs)})
        bids(cid) ==
            LET own == SelectSeq(recs, LAMBDA r : r.campaign_id = cid)
            IN  [q \in 1..Len(own) |->
                    [nm_id       |-> own[q].nm_id,
                     bid_kopecks |-> own[q].new_bid_kopecks,
                     placement   |-> own[q].placement]]
    IN  [q \in 1..Len(cids) |-> [advert_id |-> cids[q], nm_bids |-> bids(cids[q])]]

\* a split that sends only the first 50 bids of every campaign
SplitChunk_FirstPartOnly(chunk) ==
    [c \in 1..Len(chunk) |->
        [advert_id |-> chunk[c].advert_id,
         nm_bids   |-> SubSeq(chunk[c].nm_bids, 1, Min(Len(chunk[c].nm_bids), ChunkSize))]]

\* _apply_bids_patch, lines 848-854: split_chunk of one chunk of campaigns
SplitChunk(chunk) ==
    LET nm_chunks == <<>> \o [c \in 1..Len(chunk) |->
                                 _iter_chunks(chunk[c].nm_bids, ChunkSize)]
        parts  == UNION {{<<c, q>> : q \in 1..Len(nm_chunks[c])} : c \in 1..Len(chunk)}
        before == <<>> \o [c \in 1..Len(chunk) |-> Cardinality({y \in parts : y[1] < c})]
    IN  [p \in 1..Cardinality(parts) |->
            LET c == CHOOSE d \in 1..Len(chunk) :
                        before[d] < p /\ p <= before[d] + Len(nm_chunks[d])
            IN  [advert_id |-> chunk[c].advert_id, nm_bids |-> nm_chunks[c][p - before[c]]]]

\* an apply step that ignores --apply
ShouldApply_IgnoresFlag(apply_flag, bids) == bids # <<>>

\* bids-plan, line 220: if apply and payload["bids"]
ShouldApply(apply_flag, bids) == apply_flag /\ bids # <<>>

\* _handle_exception: the error type printed for an exception
ErrorType(status) ==
    IF IsNone(status) THEN "cli_error"
    ELSE CASE Val(status) = 401 -> "auth_error"
           [] Val(status) = 403 -> "forbidden"
           [] Val(status) = 404 -> "not_found"
           [] Val(status) = 429 -> "rate_limit"
           [] OTHER -> "api_error"

\* call_with_retry: max_attempts = max(1, int(cfg.retries))
MaxAttempts(o) == Max(1, o.retries)

----------------------------------------------------------------------------
\* One invocation of snapshot, bids-plan or budget-plan

inputs == <<wf, opts, world>>

loops == <<loop_i, loop_j>>

plan == <<recommendations, payload, api_result>>

\* the error is printed and the command goes on to its last statement
Exit1_Returns(type, status) ==
    /\ err' = Some([type |-> type, status_code |-> status])
    /\ exit_code' = Some(1)
    /\ pc' = "emit"

\* print_error(type, ...) followed by raise typer.Exit(1)
Exit1(type, status) ==
    /\ err' = Some([type |-> type, status_code |-> status])
    /\ exit_code' = Some(1)
    /\ pc' = "exited"

\* whether a command fetches budgets
WantsBudgets == wf = "budget_plan" \/ (wf = "snapshot" /\ opts.include_budget)

\* bids-plan, lines 143-146
CheckPlacement ==
    /\ pc = "placement"
    /\ IF StripLower(opts.placement) \notin allowed_placements
       THEN Exit1("validation_error", None)
       ELSE pc' = "dates" /\ UNCHANGED <<err, exit_code>>
    /\ UNCHANGED <<evars, bvars, rvars, avars, cvars,
                   inputs, loops, attempt, ncalls, period, advert_rows,
                   fetched, plan, submitted, emitted>>

\* lines 48, 147, 267: _resolve_date_range
ResolveDateRange ==
    /\ pc = "dates"
    /\ LET r == _resolve_date_range(opts.date_from, opts.date_to, DefaultDays(wf), opts.today)
       IN  IF ~r.ok
           THEN Exit1("validation_error", None) /\ UNCHANGED <<period, loop_i>>
           ELSE /\ period' = Some([start |-> r.start, end |-> r.end,
                                   dates |-> r.dates, days |-> r.days])
                /\ pc' = "adverts"
                /\ loop_i' = 1
                /\ UNCHANGED <<err, exit_code>>
    /\ UNCHANGED <<evars, bvars, rvars, avars, cvars,
                   inputs, loop_j, attempt, ncalls, advert_rows,
                   fetched, plan, submitted, emitted>>

\* _apply_bids_patch: the chunks of campaigns of the payload
CampaignChunks == _iter_chunks(payload, ChunkSize)

\* call_api up to the first statement of call_with_retry's loop: the token is
\* required, then the remote function is about to be invoked
CallApi ==
    /\ pc \in CallKinds
    /\ attempt = None
    /\ IF ~opts.api_token
       THEN Exit1("auth_error", None) /\ UNCHANGED <<attempt, ncalls, submitted>>
       ELSE /\ attempt' = Some(0)
            /\ ncalls' = [ncalls EXCEPT ![pc] = @ + 1]
            /\ submitted' = IF pc = "bids_patch"
                            THEN Append(submitted, SplitChunk(CampaignChunks[loop_i]))
                            ELSE submitted
            /\ UNCHANGED <<pc, err, exit_code>>
    /\ UNCHANGED <<evars, bvars, rvars, avars, cvars,
                   inputs, loops, period, advert_rows, fetched, plan, emitted>>

\* call_with_retry, lines 95-102: the remote function raises
CallRaises(status) ==
    /\ pc \in CallKinds
    /\ ~IsNone(attempt)
    /\ IF ~IsNone(status) /\ Val(status) \in RetryableStatuses
          /\ Val(attempt) < MaxAttempts(opts) - 1
       THEN attempt' = Some(Val(attempt) + 1) /\ UNCHANGED <<pc, err, exit_code>>
       ELSE Exit1(ErrorType(status), status) /\ UNCHANGED attempt
    /\ UNCHANGED <<evars, bvars, rvars, avars, cvars,
                   inputs, loops, ncalls, period, advert_rows, fetched,
                   plan, submitted, emitted>>

\* _fetch_adverts_v2: one chunk answered; after the last chunk the command
\* goes on (bids-plan: line 149, the others: line 53 or 270)
AdvertsOk ==
    /\ pc = "adverts"
    /\ ~IsNone(attempt)
    /\ attempt' = None
    /\ LET chunks == AdvertChunks(opts.ids)
       IN  /\ advert_rows' = AppendUnseen(advert_rows, AdvertsResponse(chunks[loop_i], world))
           /\ IF loop_i < Len(chunks)
              THEN loop_i' = loop_i + 1 /\ pc' = pc
              ELSE /\ loop_i' = 1
                   /\ pc' = IF wf = "bids_plan" THEN "missing"
                            ELSE IF advert_rows' = <<>> THEN "emit"
                            ELSE "fullstats"
    /\ UNCHANGED <<evars, bvars, rvars, avars, cvars,
                   inputs, loop_j, ncalls, period, fetched, plan,
                   submitted, err, emitted, exit_code>>

\* the mutated test for campaigns the gateway did not return: none is missed
CheckMissing_Skips ==
    /\ pc = "missing"
    /\ pc' = "normquery"
    /\ UNCHANGED <<evars, bvars, rvars, avars, cvars,
                   inputs, loops, attempt, ncalls, period, advert_rows,
                   fetched, plan, submitted, emitted, err, exit_code>>

\* bids-plan, lines 151-154
CheckMissing ==
    /\ pc = "missing"
    /\ LET missing == SelectSeq(Val(opts.ids), LAMBDA c : c \notin Range(advert_rows))
       IN  IF missing # <<>>
           THEN Exit1("validation_error", None)
           ELSE pc' = "normquery" /\ UNCHANGED <<err, exit_code>>
    /\ UNCHANGED <<evars, bvars, rvars, avars, cvars,
                   inputs, loops, attempt, ncalls, period, advert_rows,
                   fetched, plan, submitted, emitted>>

\* _fetch_keyword_stats_v1 answered; bids-plan goes on to lines 157-162
NormqueryOk ==
    /\ pc = "normquery"
    /\ ~IsNone(attempt)
    /\ attempt' = None
    /\ pc' = IF opts.use_min_bids /\ world.nms > 0 THEN "bids_min" ELSE "plan"
    /\ loop_i' = 1
    /\ loop_j' = 1
    /\ UNCHANGED <<evars, bvars, rvars, avars, cvars,
                   inputs, ncalls, period, advert_rows, fetched, plan,
                   submitted, err, emitted, exit_code>>

\* _fetch_min_bid_map: the floors of one chunk of products of one advert
BidsMinOk ==
    /\ pc = "bids_min"
    /\ ~IsNone(attempt)
    /\ attempt' = None
    /\ LET ids       == Val(opts.ids)
           nm_chunks == _iter_chunks(NmIds(world), ChunkSize)
       IN  /\ fetched' = [fetched EXCEPT !.min_bids =
                             @ \cup {<<ids[loop_i], nm>> : nm \in Range(nm_chunks[loop_j])}]
           /\ IF loop_j < Len(nm_chunks)
              THEN loop_j' = loop_j + 1 /\ UNCHANGED <<loop_i, pc>>
              ELSE IF loop_i < Len(ids)
              THEN loop_i' = loop_i + 1 /\ loop_j' = 1 /\ pc' = pc
              ELSE loop_i' = 1 /\ loop_j' = 1 /\ pc' = "plan"
    /\ UNCHANGED <<evars, bvars, rvars, avars, cvars,
                   inputs, ncalls, period, advert_rows, plan, submitted,
                   err, emitted, exit_code>>

\* bids-plan, lines 164-220: recommendations, sort, truncation, payload
BuildPlan ==
    /\ pc = "plan"
    /\ recommendations' =
          Truncate(SortRecs(GenRecs(opts, world, fetched.min_bids)), opts.max_changes)
    /\ payload' = _build_bids_patch_payload(recommendations')
    /\ pc' = IF ShouldApply(opts.apply, payload') THEN "bids_patch" ELSE "emit"
    /\ loop_i' = 1
    /\ UNCHANGED <<evars, bvars, rvars, avars, cvars,
                   inputs, loop_j, attempt, ncalls, period, advert_rows,
                   fetched, api_result, submitted, err, emitted, exit_code>>

\* _apply_bids_patch: one request answered
BidsPatchOk ==
    /\ pc = "bids_patch"
    /\ ~IsNone(attempt)
    /\ attempt' = None
    /\ IF loop_i < Len(CampaignChunks)
       THEN loop_i' = loop_i + 1 /\ UNCHANGED <<pc, api_result>>
       ELSE /\ loop_i' = 1
            /\ pc' = "emit"
            /\ api_result' = Some([k \in 1..Len(submitted) |-> "ok"])
    /\ UNCHANGED <<evars, bvars, rvars, avars, cvars,
                   inputs, loop_j, ncalls, period, advert_rows, fetched,
                   recommendations, payload, submitted, err, emitted, exit_code>>

\* _fetch_fullstats_map: one chunk of campaign ids answered
FullstatsOk ==
    /\ pc = "fullstats"
    /\ ~IsNone(attempt)
    /\ attempt' = None
    /\ LET chunks == _iter_chunks(advert_rows, ChunkSize)
       IN  /\ fetched' = [fetched EXCEPT !.stats = @ \cup Range(chunks[loop_i])]
           /\ IF loop_i < Len(chunks)
              THEN loop_i' = loop_i + 1 /\ pc' = pc
              ELSE loop_i' = 1 /\ pc' = IF WantsBudgets THEN "budgets" ELSE "emit"
    /\ UNCHANGED <<evars, bvars, rvars, avars, cvars,
                   inputs, loop_j, ncalls, period, advert_rows, plan,
                   submitted, err, emitted, exit_code>>

\* _fetch_budgets_map: the budget of one campaign answered
BudgetsOk ==
    /\ pc = "budgets"
    /\ ~IsNone(attempt)
    /\ attempt' = None
    /\ fetched' = [fetched EXCEPT !.budgets = @ \cup {advert_rows[loop_i]}]
    /\ IF loop_i < Len(advert_rows)
       THEN loop_i' = loop_i + 1 /\ pc' = pc
       ELSE loop_i' = 1 /\ pc' = "emit"
    /\ UNCHANGED <<evars, bvars, rvars, avars, cvars,
                   inputs, loop_j, ncalls, period, advert_rows, plan,
                   submitted, err, emitted, exit_code>>

\* emit(...) at the end of the command, which then returns
Emit ==
    /\ pc = "emit"
    /\ emitted' = Some(wf)
    /\ exit_code' = Some(0)
    /\ pc' = "done"
    /\ UNCHANGED <<evars, bvars, rvars, avars, cvars,
                   inputs, loops, attempt, ncalls, period, advert_rows,
                   fetched, plan, submitted, err>>

Next ==
    \/ CheckPlacement
    \/ ResolveDateRange
    \/ CallApi
    \/ \E status \in FailStatuses : CallRaises(status)
    \/ AdvertsOk
    \/ CheckMissing
    \/ NormqueryOk
    \/ BidsMinOk
    \/ BuildPlan
    \/ BidsPatchOk
    \/ FullstatsOk
    \/ BudgetsOk
    \/ Emit

Spec == Init /\ [][Next]_vars

----------------------------------------------------------------------------
\* Claims about _recommend_nm_bid, properties of SpecEngine

\* C1: every emitted recommendation for which --max-bid is configured has
\* new_bid_kopecks <= max bid.  The code re-rounds the cap to the step, to
\* the nearest multiple, which can lie above the cap.
C1_NewBidAtMostMaxBid ==
    (Emitted /\ ~IsNone(ecfg.max_bid_kopecks))
        => EmittedRec.new_bid_kopecks <= Val(ecfg.max_bid_kopecks)

\* C2: every emitted recommendation for which a minimum-bid floor is known
\* has new_bid_kopecks >= that floor.  The code re-rounds the floor to the
\* nearest multiple of the step, which can lie below the floor, and the cap
\* is applied after the floor.
C2_NewBidAtLeastFloor ==
    (Emitted /\ ~IsNone(efloor))
        => EmittedRec.new_bid_kopecks >= Val(efloor)

\* The rules as the ordered list kill, CPA-exceeded, CTR-floor, increase, hold
RuleMatches(i, perf, cfg) ==
    CASE i = 1 -> KillCond(perf, cfg)
      [] i = 2 -> CpaCond(perf, cfg)
      [] i = 3 -> CtrCond(perf, cfg)
      [] i = 4 -> IncreaseCond(perf, cfg)
      [] OTHER -> TRUE

FirstMatch(perf, cfg) ==
    CHOOSE i \in 1..5 :
        /\ RuleMatches(i, perf, cfg)
        /\ \A j \in 1..(i - 1) : ~RuleMatches(j, perf, cfg)

RuleAction(i) == IF i \in {1, 2, 3} THEN "decrease" ELSE IF i = 4 THEN "increase" ELSE "hold"

RulePct(i, cfg) ==
    CASE i = 1 -> -Abs(cfg.strong_decrease_pct)
      [] i \in {2, 3} -> -Abs(cfg.decrease_pct)
      [] i = 4 -> Abs(cfg.increase_pct)
      [] OTHER -> 0

\* priority of rule i in hundredths, the tenth of the spend rounded to them
RulePriority(i, perf, cfg) ==
    CASE i = 1 -> perf.spend_rub + 100 * perf.clicks
      [] i = 2 -> perf.spend_rub + Max(0, Val(perf.cpa_rub) - Val(cfg.target_cpa))
      [] i = 3 -> perf.spend_rub + Max(0, 10 * (Val(cfg.min_ctr) - Val(perf.ctr)))
      [] i = 4 -> 1000 * perf.orders
                  + (CHOOSE k \in (perf.spend_rub \div 10)..(perf.spend_rub \div 10 + 1) :
                        /\ 2 * Abs(10 * k - perf.spend_rub) <= 10
                        /\ (2 * Abs(10 * k - perf.spend_rub) = 10 => k % 2 = 0))
      [] OTHER -> 0

RulesEvaluated == epc \in {"delta", "floor", "cap", "noop"} \/ Emitted

\* C3: for every eligible record and configuration the action, percentage
\* and priority score are those of the first matching rule in the order
\* kill, CPA-exceeded, CTR-floor, increase, hold; with orders = 0 and
\* clicks >= kill-clicks the kill rule is chosen even if the CTR-floor
\* condition holds too.
C3_FirstMatchingRule ==
    /\ RulesEvaluated =>
          LET i == FirstMatch(eperf, ecfg)
          IN  /\ edec.action = RuleAction(i)
              /\ edec.delta_pct = RulePct(i, ecfg)
              /\ edec.priority_score = RulePriority(i, eperf, ecfg)
    /\ Emitted =>
          /\ EmittedRec.action = RuleAction(FirstMatch(eperf, ecfg))
          /\ EmittedRec.priority_score = RulePriority(FirstMatch(eperf, ecfg), eperf, ecfg)
    /\ (RulesEvaluated /\ eperf.orders = 0 /\ eperf.clicks >= ecfg.kill_clicks) =>
          /\ edec.action = "decrease"
          /\ edec.delta_pct = -Abs(ecfg.strong_decrease_pct)
          /\ edec.priority_score = eperf.spend_rub + 100 * eperf.clicks

\* a recommendation of the kill rule for a record that also meets the
\* CTR-floor condition
C3_Witness ==
    /\ Emitted
    /\ KillCond(eperf, ecfg)
    /\ CtrCond(eperf, ecfg)
    /\ EmittedRec.priority_score = eperf.spend_rub + 100 * eperf.clicks

\* C4 as stated: an emitted "increase" has orders > 0 and none of the kill,
\* CPA-exceeded and CTR-floor conditions, whatever min-orders-for-increase is.
C4_IncreaseHasOrders ==
    (Emitted /\ EmittedRec.action = "increase") =>
        /\ eperf.orders > 0
        /\ ~KillCond(eperf, ecfg)
        /\ ~CpaCond(eperf, ecfg)
        /\ ~CtrCond(eperf, ecfg)

\* C4 amended: an emitted "increase" has orders >= min-orders-for-increase
\* and none of the kill, CPA-exceeded and CTR-floor conditions; so it has an
\* order whenever min-orders-for-increase >= 1.
C4_IncreaseHasMinOrders ==
    (Emitted /\ EmittedRec.action = "increase") =>
        /\ eperf.orders >= ecfg.min_orders_for_increase
        /\ (ecfg.min_orders_for_increase >= 1 => eperf.orders > 0)
        /\ ~KillCond(eperf, ecfg)
        /\ ~CpaCond(eperf, ecfg)
        /\ ~CtrCond(eperf, ecfg)

C4_Witness ==
    /\ Emitted
    /\ EmittedRec.action = "increase"
    /\ ecfg.min_orders_for_increase >= 1
    /\ eperf.orders >= 1

\* C5: every emitted recommendation has new_bid_kopecks /= current_bid_kopecks
\* and action increase or decrease; a hold, or a bid equal to the current
\* bid after rounding and clamps, returns no recommendation.
C5_NoOpSuppressed ==
    /\ Emitted =>
          /\ EmittedRec.new_bid_kopecks # EmittedRec.current_bid_kopecks
          /\ EmittedRec.action \in {"increase", "decrease"}
    /\ (epc = "returned" /\ (edec.action = "hold" \/ ebid = ecur)) => IsNone(erec)

\* a rule fired and the clamped bid came back to the current bid
C5_Witness ==
    /\ epc = "returned"
    /\ edec.action # "hold"
    /\ ecur > 0
    /\ ebid = ecur
    /\ IsNone(erec)

\* The multiple of s nearest to the rational n / d (a tie: the even multiple)
NearestMultiple(n, d, s) ==
    LET q == n \div (d * s)
    IN  s * (CHOOSE k \in (q - 1)..(q + 1) :
                \A j \in (q - 1)..(q + 1) :
                    \/ Abs(d * s * k - n) < Abs(d * s * j - n)
                    \/ /\ Abs(d * s * k - n) = Abs(d * s * j - n)
                       /\ (k % 2 = 0 \/ j = k))

\* the reference computation of the new bid
RefBid(current, delta, step, floor, max_bid) ==
    LET s  == Max(1, step)
        b0 == NearestMultiple(Max(1, NearestMultiple(current * (100 + delta), 100, 1)), 1, s)
        b1 == IF ~IsNone(floor) /\ b0 < Val(floor)
              THEN NearestMultiple(Val(floor), 1, s) ELSE b0
    IN  IF ~IsNone(max_bid) /\ b1 > Val(max_bid)
        THEN NearestMultiple(Val(max_bid), 1, s) ELSE b1

----------------------------------------------------------------------------
\* Claims about the commands, properties of Spec

\* the calls handed to the gateway so far
TotalCalls ==
    ncalls["adverts"] + ncalls["fullstats"] + ncalls["budgets"]
    + ncalls["normquery"] + ncalls["bids_min"] + ncalls["bids_patch"]

\* C7: bids-plan hands a submit-bid-changes call to the gateway only when
\* --apply was given and the built payload is not empty, and then the k-th
\* call carries the k-th chunk of campaigns of the payload, so that no chunk
\* is handed over twice by the optimizer.
C7_SubmitOnlyOnApplyOnce ==
    /\ ncalls["bids_patch"] = Len(submitted)
    /\ submitted # <<>> =>
          /\ wf = "bids_plan"
          /\ opts.apply
          /\ payload # <<>>
          /\ Len(submitted) <= Len(CampaignChunks)
          /\ \A k \in 1..Len(submitted) :
                /\ submitted[k] = SplitChunk(CampaignChunks[k])
                /\ \A m \in 1..Len(submitted) : m # k => submitted[m] # submitted[k]

\* bids-plan --apply has finished after handing two chunks of campaigns over
C7_Witness ==
    /\ pc = "done"
    /\ opts.apply
    /\ Len(CampaignChunks) = 2
    /\ ncalls["bids_patch"] = 2

\* the product bids of one campaign carried by one submit call
BidsOfCampaign(body, cid) ==
    UNION {{<<k, b>> : b \in 1..Len(body[k].nm_bids)} :
              k \in {e \in 1..Len(body) : body[e].advert_id = cid}}

\* C8: every submit call carries at most 50 campaigns and at most 50 product
\* bids of any one campaign.
C8_SubmitCallWithinLimits ==
    \A k \in 1..Len(submitted) :
        LET body == submitted[k]
            cids == {body[e].advert_id : e \in 1..Len(body)}
        IN  /\ Cardinality(cids) <= ChunkSize
            /\ \A cid \in cids : Cardinality(BidsOfCampaign(body, cid)) <= ChunkSize

\* a call handed to the gateway has raised for the last time
GatewayFailed == ~IsNone(err) /\ ~IsNone(attempt)

\* C9: once a gateway call has finally failed, the error printed is the
\* structured error of the exception, the exit status is 1, no result document
\* has been emitted, and the invocation takes no further step: no gateway
\* call, no emission.
C9_FailureAborts ==
    GatewayFailed =>
        /\ Val(err).type = ErrorType(Val(err).status_code)
        /\ exit_code = Some(1)
        /\ emitted = None
        /\ IsNone(api_result)
        /\ ~ENABLED Next

\* the second submit call of the apply step has failed on its last attempt
C9_Witness ==
    /\ GatewayFailed
    /\ ncalls["bids_patch"] = 2
    /\ Val(err).status_code = Some(503)
    /\ Val(attempt) = MaxAttempts(opts) - 1
    /\ Val(attempt) > 0

\* --from/--to as C10 words it: exactly one given, an unparsable date,
\* start > end, or more than 31 days inclusive
InvalidRange ==
    LET f == opts.date_from
        t == opts.date_to
    IN  \/ IsNone(f) # IsNone(t)
        \/ /\ ~IsNone(f)
           /\ ~IsNone(t)
           /\ \/ ~IsIsoDate(Val(f))
              \/ ~IsIsoDate(Val(t))
              \/ ToOrdinal(Val(f)) > ToOrdinal(Val(t))
              \/ ToOrdinal(Val(t)) - ToOrdinal(Val(f)) + 1 > 31

DisallowedPlacement ==
    wf = "bids_plan" /\ StripLower(opts.placement) \notin allowed_placements

\* C10: with an invalid date range or a disallowed --placement, the command
\* hands no call to the gateway and emits nothing, and where it ends it has
\* printed a validation error and exits with status 1.
C10_ValidationBeforeGateway ==
    (InvalidRange \/ DisallowedPlacement) =>
        /\ TotalCalls = 0
        /\ emitted = None
        /\ pc \in {"placement", "dates", "exited"}
        /\ pc = "exited" =>
              /\ err = Some([type |-> "validation_error", status_code |-> None])
              /\ exit_code = Some(1)

\* budget-plan was given a range of 32 days and has ended
C10_Witness ==
    /\ wf = "budget_plan"
    /\ ~IsNone(opts.date_from)
    /\ ~IsNone(opts.date_to)
    /\ IsIsoDate(Val(opts.date_from))
    /\ IsIsoDate(Val(opts.date_to))
    /\ ToOrdinal(Val(opts.date_to)) - ToOrdinal(Val(opts.date_from)) + 1 = 32
    /\ pc = "exited"

\* --id names a campaign the gateway does not know
HasUnknownId ==
    /\ ~IsNone(opts.ids)
    /\ \E k \in 1..Len(Val(opts.ids)) : Val(opts.ids)[k] \notin world.known

\* the command ended on an error that is neither a failed gateway call nor a
\* missing token nor a rejected option
UnknownIdError ==
    /\ pc = "exited"
    /\ ~GatewayFailed
    /\ Val(err).type = "validation_error"
    /\ ~InvalidRange
    /\ ~DisallowedPlacement

\* C11 as stated: a campaign id the gateway does not know is never an error,
\* in snapshot, bids-plan and budget-plan alike.
C11_UnknownIdNeverAnError ==
    HasUnknownId => ~UnknownIdError

\* C11 amended: in snapshot and budget-plan an unknown campaign id is no
\* error, and the command that runs to its end emits its document without
\* that campaign; in bids-plan an unknown id is a validation error with exit
\* status 1, reported after the campaigns were fetched and before any other
\* gateway call, and nothing is emitted.
C11_UnknownIdSkippedOrRejected ==
    HasUnknownId =>
        /\ UnknownIdError => (wf = "bids_plan" /\ exit_code = Some(1))
        /\ wf = "bids_plan" =>
              /\ emitted = None
              /\ TotalCalls = ncalls["adverts"]
              /\ pc \in {"placement", "dates", "adverts", "missing", "exited"}
        /\ (wf # "bids_plan" /\ pc = "done") =>
              /\ emitted = Some(wf)
              /\ exit_code = Some(0)
              /\ \A k \in 1..Len(advert_rows) : advert_rows[k] \in world.known

\* snapshot of campaigns 1 and 2, of which the gateway knows only 2, has
\* emitted its document
C11_Witness ==
    /\ wf = "snapshot"
    /\ opts.ids = Some(<<1, 2>>)
    /\ 1 \notin world.known
    /\ advert_rows = <<2>>
    /\ pc = "done"
    /\ emitted = Some("snapshot")

\* the bids plan has been assembled
PlanBuilt == wf = "bids_plan" /\ pc \in {"emit", "done"}

\* the recommendations in the order in which bids-plan generated them
Generated == GenRecs(opts, world, fetched.min_bids)

\* the sort key of a recommendation
SortKey(rec) == <<rec.priority_score, rec.perf.spend_rub>>

\* the members of a list that have a given sort key, in the list's order
WithKey(key, recs) == SelectSeq(recs, LAMBDA r : SortKey(r) = key)

IsPrefix(short, long) ==
    Len(short) <= Len(long) /\ short = SubSeq(long, 1, Len(short))

\* C12: the recommendations of the bids-plan output are ordered by priority
\* score descending, then by the spend of their perf descending, and
\* recommendations equal in both keep the order in which they were generated.
C12_SortedByPriorityThenSpend ==
    PlanBuilt =>
        /\ \A k \in 1..(Len(recommendations) - 1) :
              LET a == recommendations[k]
                  b == recommendations[k + 1]
              IN  /\ a.priority_score >= b.priority_score
                  /\ a.priority_score = b.priority_score =>
                        a.perf.spend_rub >= b.perf.spend_rub
        /\ LET gen == Generated
           IN  \A key \in {SortKey(r) : r \in Range(recommendations)} :
                  IsPrefix(WithKey(key, recommendations), WithKey(key, gen))

\* a plan whose first two recommendations have the same priority score and
\* were generated in the other order, the smaller spend first
C12_Witness ==
    /\ PlanBuilt
    /\ Len(recommendations) >= 2
    /\ recommendations[1].priority_score = recommendations[2].priority_score
    /\ recommendations[1].perf.spend_rub > recommendations[2].perf.spend_rub
    /\ Generated[1] = recommendations[2]
    /\ Generated[2] = recommendations[1]

\* the product bids a payload carries, over all its entries
PayloadBids(p) ==
    UNION {{<<p[q].advert_id, p[q].nm_bids[b]>> : b \in 1..Len(p[q].nm_bids)} :
              q \in 1..Len(p)}

\* the number of product bids of a payload
PayloadSize(p) ==
    Cardinality(UNION {{<<q, b>> : b \in 1..Len(p[q].nm_bids)} : q \in 1..Len(p)})

\* the bid a recommendation stands for
BidOf(rec) ==
    <<rec.campaign_id,
      [nm_id |-> rec.nm_id, bid_kopecks |-> rec.new_bid_kopecks, placement |-> rec.placement]>>

\* C13: the recommendations of the output are the first
\* min(n, max(0, max_changes)) of the n generated recommendations in sorted
\* order, all n of them without --max-changes; the payload carries one bid
\* for every recommendation of the output and no other.
C13_OnlyMaxChangesTruncates ==
    PlanBuilt =>
        LET sorted == SortRecs(Generated)
            n      == Len(sorted)
            kept   == IF IsNone(opts.max_changes) THEN n
                      ELSE IF Val(opts.max_changes) <= 0 THEN 0
                      ELSE IF Val(opts.max_changes) < n THEN Val(opts.max_changes)
                      ELSE n
        IN  /\ Len(recommendations) = kept
            /\ \A k \in 1..kept : recommendations[k] = sorted[k]
            /\ PayloadSize(payload) = kept
            /\ PayloadBids(payload) = {BidOf(recommendations[k]) : k \in 1..kept}

\* two recommendations were generated and --max-changes 1 kept the first of
\* the sorted list, which the payload carries
C13_Witness ==
    /\ PlanBuilt
    /\ opts.max_changes = Some(1)
    /\ Len(Generated) = 2
    /\ recommendations = <<SortRecs(Generated)[1]>>
    /\ PayloadSize(payload) = 1

\* C14: the payload has exactly one entry per campaign id that has a
\* recommendation in the output, the entries are in strictly ascending
\* campaign id, and each entry lists that campaign's recommendations as
\* (product id, new bid, placement) in the order of the recommendation list.
C14_PayloadGroupsByCampaign ==
    PlanBuilt =>
        /\ {payload[q].advert_id : q \in 1..Len(payload)}
              = {recommendations[k].campaign_id : k \in 1..Len(recommendations)}
        /\ \A q \in 1..(Len(payload) - 1) : payload[q].advert_id < payload[q + 1].advert_id
        /\ \A q \in 1..Len(payload) :
              LET own == SelectSeq(recommendations,
                                   LAMBDA r : r.campaign_id = payload[q].advert_id)
              IN  /\ Len(payload[q].nm_bids) = Len(own)
                  /\ \A b \in 1..Len(own) : <<payload[q].advert_id, payload[q].nm_bids[b]>>
                                               = BidOf(own[b])

\* the recommendation of campaign 2 precedes that of campaign 1 in the
\* output, and the payload lists campaign 1 first
C14_Witness ==
    /\ PlanBuilt
    /\ Len(recommendations) = 2
    /\ recommendations[1].campaign_id = 2
    /\ recommendations[2].campaign_id = 1
    /\ Len(payload) = 2
    /\ payload[1].advert_id = 1
    /\ payload[2].advert_id = 2

\* C15: no two recommendations of the bids-plan output share the same
\* (campaign id, product id, placement), so that the payload never carries
\* two bids for the same product of the same campaign.
C15_OneRecommendationPerTriple ==
    PlanBuilt =>
        /\ \A k, m \in 1..Len(recommendations) :
              (/\ recommendations[k].campaign_id = recommendations[m].campaign_id
               /\ recommendations[k].nm_id = recommendations[m].nm_id
               /\ recommendations[k].placement = recommendations[m].placement) => k = m
        /\ \A q \in 1..Len(payload) :
              \A b, c \in 1..Len(payload[q].nm_bids) :
                 payload[q].nm_bids[b].nm_id = payload[q].nm_bids[c].nm_id => b = c

----------------------------------------------------------------------------
\* More claims about _recommend_nm_bid, properties of SpecEngine

\* the gate as C16 words it
GatePasses ==
    \/ eperf.clicks >= ecfg.min_clicks
    \/ eperf.views >= (IF 30 * ecfg.min_clicks > 1000 THEN 30 * ecfg.min_clicks ELSE 1000)

DefaultRunwayDays == 300

\* --min-spend-day, 50.0 rub
DefaultMinSpendDay == 5000

\* --round-to
DefaultRoundTo == 10000

\* --min-topup
DefaultMinTopup == 10000

\* the runway the sort key uses for a plan whose runway_days is falsy, 999
SortRunwayDefault == 99900

\* campaigns of one run
MaxBudgetCampaigns == 2

\* day_count of the resolved period
DayCounts == {1, 7}

RunwayDayValues == {DefaultRunwayDays}

MinSpendDayValues == {200, DefaultMinSpendDay}

MaxCpaValues == {None, Some(700)}

MinRoasValues == {None, Some(200)}

RoundToValues == {0, 100, DefaultRoundTo}

MinTopupValues == {0, 150, DefaultMinTopup}

BudgetOptions ==
    [target_runway_days    : RunwayDayValues,
     min_spend_per_day_rub : MinSpendDayValues,
     max_cpa               : MaxCpaValues,
     min_roas              : MinRoasValues,
     round_to_kopecks      : RoundToValues,
     min_topup_kopecks     : MinTopupValues,
     day_count             : DayCounts]

\* a campaign's entry of stats_map: views, clicks, orders, sum and sum_price
StatValues ==
    [views : {2000}, clicks : {40},
     orders : {0, 2}, sum : {0, 1400, 1420, 70000}, sum_price : {0, 2800}]

\* a stat with 2000 views and 40 clicks
StatOf(orders, sum, sum_price) ==
    [views |-> 2000, clicks |-> 40, orders |-> orders, sum |-> sum, sum_price |-> sum_price]

\* a campaign's entry of budgets_map: total
BudgetTotals == {0, 500, 600, 40000}

\* a campaign with what stats_map and budgets_map hold for it
CampaignInputs ==
    [stat : {None} \cup {Some(s) : s \in StatValues},
     budget : {None} \cup {Some(t) : t \in BudgetTotals}]

\* the campaigns that follow the first one of a run
Companions ==
    {[stat |-> Some(StatOf(2, 1400, 2800)), budget |-> Some(0)],
     [stat |-> Some(StatOf(2, 1400, 2800)), budget |-> Some(500)],
     [stat |-> Some(StatOf(0, 70000, 2800)), budget |-> Some(500)],
     [stat |-> None, budget |-> Some(500)]}

\* the lists of n companions
RECURSIVE CompanionLists(_)
CompanionLists(n) ==
    IF n = 0 THEN {<<>>}
    ELSE {Append(l, c) : l \in CompanionLists(n - 1), c \in Companions}

\* a _campaign_metrics that reports a CPA of 0 when there are no orders
_campaign_metrics_ZeroCpa(stat) ==
    [views       |-> stat.views,
     clicks      |-> stat.clicks,
     orders      |-> stat.orders,
     spend_rub   |-> stat.sum,
     revenue_rub |-> stat.sum_price,
     ctr         |-> IF stat.views # 0
                     THEN Some(RoundHalfEven(stat.clicks * 10000, stat.views)) ELSE None,
     cpc_rub     |-> IF stat.clicks # 0
                     THEN Some(RoundHalfEven(stat.sum, stat.clicks)) ELSE None,
     cpa_rub     |-> IF stat.orders # 0
                     THEN Some(RoundHalfEven(stat.sum, stat.orders)) ELSE Some(0),
     roas        |-> IF stat.sum > 0
                     THEN Some(RoundHalfEven(100 * stat.sum_price, stat.sum)) ELSE None,
     acos        |-> IF stat.sum_price > 0
                     THEN Some(RoundHalfEven(10000 * stat.sum, stat.sum_price)) ELSE None]

\* _campaign_metrics: ctr in hundredths of a percent, cpc_rub and cpa_rub in
\* kopecks, roas in hundredths, acos in hundredths of a percent
_campaign_metrics(stat) ==
    [views       |-> stat.views,
     clicks      |-> stat.clicks,
     orders      |-> stat.orders,
     spend_rub   |-> stat.sum,
     revenue_rub |-> stat.sum_price,
     ctr         |-> IF stat.views # 0
                     THEN Some(RoundHalfEven(stat.clicks * 10000, stat.views)) ELSE None,
     cpc_rub     |-> IF stat.clicks # 0
                     THEN Some(RoundHalfEven(stat.sum, stat.clicks)) ELSE None,
     cpa_rub     |-> IF stat.orders # 0
                     THEN Some(RoundHalfEven(stat.sum, stat.orders)) ELSE None,
     roas        |-> IF stat.sum > 0
                     THEN Some(RoundHalfEven(100 * stat.sum_price, stat.sum)) ELSE None,
     acos        |-> IF stat.sum_price > 0
                     THEN Some(RoundHalfEven(10000 * stat.sum, stat.sum_price)) ELSE None]

\* spend_per_day_rub < min_spend_per_day_rub
BelowMinSpend(metrics, o) ==
    metrics.spend_rub < o.min_spend_per_day_rub * o.day_count

\* max_cpa is given, cpa_rub is not None and exceeds it
CpaTooHigh(metrics, o) ==
    /\ ~IsNone(o.max_cpa)
    /\ ~IsNone(metrics.cpa_rub)
    /\ Val(metrics.cpa_rub) > Val(o.max_cpa)

\* min_roas is given, roas is not None and is below it
RoasTooLow(metrics, o) ==
    /\ ~IsNone(o.min_roas)
    /\ ~IsNone(metrics.roas)
    /\ Val(metrics.roas) < Val(o.min_roas)

\* a runway test that lets a runway equal to the target through
RunwayReached_Strict(total_kop, metrics, o) ==
    100 * total_kop * o.day_count > o.target_runway_days * metrics.spend_rub

\* runway_days >= target_runway_days, runway_days = total_kop / spend_per_day_kop
RunwayReached(total_kop, metrics, o) ==
    100 * total_kop * o.day_count >= o.target_runway_days * metrics.spend_rub

\* needed_kop = int(max(0, (target_runway_days - runway_days) * spend_per_day_kop))
NeededKop(total_kop, metrics, o) ==
    Max(0, (o.target_runway_days * metrics.spend_rub - 100 * o.day_count * total_kop)
               \div (100 * o.day_count))

_round_up(value, step) ==
    IF step <= 1 THEN value ELSE ((value + step - 1) \div step) * step

\* the dict appended to plans
MakePlan(cid, total_kop, metrics, o) ==
    [advert_id               |-> cid,
     spend_per_day_rub       |-> RoundHalfEven(metrics.spend_rub, o.day_count),
     current_budget_kopecks  |-> total_kop,
     runway_days             |-> RoundHalfEven(100 * total_kop * o.day_count,
                                               metrics.spend_rub),
     suggested_topup_kopecks |-> _round_up(Max(NeededKop(total_kop, metrics, o),
                                               o.min_topup_kopecks),
                                           Max(1, o.round_to_kopecks)),
     metrics                 |-> metrics]

\* one pass of the loop over advert_rows: the plans it appends
PlansOf(cid, camp, o) ==
    IF IsNone(camp.stat) \/ IsNone(camp.budget) THEN <<>>
    ELSE LET metrics   == _campaign_metrics(Val(camp.stat))
             total_kop == Val(camp.budget)
         IN  IF BelowMinSpend(metrics, o) THEN <<>>
             ELSE IF CpaTooHigh(metrics, o) THEN <<>>
             ELSE IF RoasTooLow(metrics, o) THEN <<>>
             ELSE IF metrics.spend_rub <= 0 THEN <<>>
             ELSE IF RunwayReached(total_kop, metrics, o) THEN <<>>
             ELSE <<MakePlan(cid, total_kop, metrics, o)>>

\* the key of plans.sort: (-(spend_per_day_rub or 0), runway_days or 999)
PlanKey(row) ==
    <<-row.spend_per_day_rub,
      IF row.runway_days = 0 THEN SortRunwayDefault ELSE row.runway_days>>

\* tuple comparison of two keys
KeyLess(a, b) == a[1] < b[1] \/ (a[1] = b[1] /\ a[2] < b[2])

\* plans.sort(key): stable, equal keys keep their order
SortPlans(plans) ==
    LET n == Len(plans)
        place == <<>> \o [q \in 1..n |->
                     Cardinality({r \in 1..n :
                         \/ KeyLess(PlanKey(plans[r]), PlanKey(plans[q]))
                         \/ ~KeyLess(PlanKey(plans[q]), PlanKey(plans[r])) /\ r <= q})]
    IN  [p \in 1..n |-> plans[CHOOSE q \in 1..n : place[q] = p]]

BudgetInit ==
    /\ EngineIdle
    /\ WorkflowIdle
    /\ HelpersIdle
    /\ bopts \in BudgetOptions
    /\ bcamps \in {<<first>> \o rest : first \in CampaignInputs,
                                       rest \in CompanionLists(MaxBudgetCampaigns - 1)}
    /\ bi = 1
    /\ bplans = <<>>
    /\ bpc = "loop"
    /\ bout = None

\* for advert in advert_rows: one campaign
BConsider ==
    /\ bpc = "loop"
    /\ bi <= Len(bcamps)
    /\ bplans' = bplans \o PlansOf(bi, bcamps[bi], bopts)
    /\ bi' = bi + 1
    /\ UNCHANGED <<evars, wvars, rvars, avars, cvars,
                   bopts, bcamps, bpc, bout>>

\* plans.sort(...)
BSort ==
    /\ bpc = "loop"
    /\ bi > Len(bcamps)
    /\ bplans' = SortPlans(bplans)
    /\ bpc' = "emit"
    /\ UNCHANGED <<evars, wvars, rvars, avars, cvars,
                   bopts, bcamps, bi, bout>>

\* emit({... "plans": plans})
BEmit ==
    /\ bpc = "emit"
    /\ bout' = Some(bplans)
    /\ bpc' = "done"
    /\ UNCHANGED <<evars, wvars, rvars, avars, cvars,
                   bopts, bcamps, bi, bplans>>

BudgetNext ==
    \/ BConsider
    \/ BSort
    \/ BEmit

SpecBudget == BudgetInit /\ [][BudgetNext]_vars

(***************************************************************************)
(* Claims about budget-plan, properties of SpecBudget                      *)
(***************************************************************************)

\* the command has emitted its plans
BudgetEmitted == bpc = "done" /\ ~IsNone(bout)

\* the emitted plans
EmittedPlans == Val(bout)

\* C17: the emitted plans are ordered by spend per day, highest first, and
\* plans with the same spend per day by runway, shortest first; a runway of
\* 0 (an empty budget) is the shortest runway there is.
C17_SortedBySpendThenRunway ==
    BudgetEmitted =>
        \A p \in 1..Len(EmittedPlans), q \in 1..Len(EmittedPlans) :
            p < q =>
                /\ EmittedPlans[p].spend_per_day_rub >= EmittedPlans[q].spend_per_day_rub
                /\ EmittedPlans[p].spend_per_day_rub = EmittedPlans[q].spend_per_day_rub
                       => EmittedPlans[p].runway_days <= EmittedPlans[q].runway_days

\* C18: with a max-CPA given, every emitted plan is of a campaign whose CPA
\* is defined and at most the max-CPA; with a min-ROAS given, every emitted
\* plan is of a campaign whose ROAS is defined and at least the min-ROAS.
C18_EfficiencyLimitsHold ==
    BudgetEmitted =>
        \A p \in 1..Len(EmittedPlans) :
            LET metrics == EmittedPlans[p].metrics
            IN  /\ ~IsNone(bopts.max_cpa) =>
                       /\ ~IsNone(metrics.cpa_rub)
                       /\ Val(metrics.cpa_rub) <= Val(bopts.max_cpa)
                /\ ~IsNone(bopts.min_roas) =>
                       /\ ~IsNone(metrics.roas)
                       /\ Val(metrics.roas) >= Val(bopts.min_roas)

\* the campaign an emitted plan is about
CampaignOf(row) == bcamps[row.advert_id]

\* the campaign has a stat and a budget and its spend per day is at least
\* the minimum spend per day
Eligible(camp) ==
    /\ ~IsNone(camp.stat)
    /\ ~IsNone(camp.budget)
    /\ Val(camp.stat).sum >= bopts.min_spend_per_day_rub * bopts.day_count

\* C19: every emitted plan is of a campaign that has a stat record and a
\* budget record, that spends at least the minimum spend per day, and whose
\* runway, budget / spend per day, is strictly below the target runway.
C19_PlanOnlyForShortRunway ==
    BudgetEmitted =>
        \A p \in 1..Len(EmittedPlans) :
            LET camp == CampaignOf(EmittedPlans[p])
            IN  /\ Eligible(camp)
                /\ 100 * Val(camp.budget) * bopts.day_count
                       < bopts.target_runway_days * Val(camp.stat).sum

\* a run that emits a plan and leaves out a campaign whose runway equals the
\* target runway
C19_Witness ==
    /\ BudgetEmitted
    /\ Len(EmittedPlans) >= 1
    /\ \E c \in 1..Len(bcamps) :
           /\ Eligible(bcamps[c])
           /\ Val(bcamps[c].stat).sum > 0
           /\ 100 * Val(bcamps[c].budget) * bopts.day_count
                  = bopts.target_runway_days * Val(bcamps[c].stat).sum
           /\ \A p \in 1..Len(EmittedPlans) : EmittedPlans[p].advert_id # c

\* the rounding increment, max(1, round-to)
Increment == Max(1, bopts.round_to_kopecks)

\* amount is at least max(shortfall, minimum top-up) of the campaign, the
\* shortfall being (target runway - runway) * spend per day in kopecks
CoversShortfall(amount, camp) ==
    /\ amount >= bopts.min_topup_kopecks
    /\ amount * 100 * bopts.day_count
           >= bopts.target_runway_days * Val(camp.stat).sum
              - 100 * bopts.day_count * Val(camp.budget)

\* C20: the suggested top-up of every emitted plan is the smallest multiple
\* of the rounding increment that is at least max(shortfall, minimum top-up).
C20_SmallestCoveringMultiple ==
    BudgetEmitted =>
        \A p \in 1..Len(EmittedPlans) :
            LET camp      == CampaignOf(EmittedPlans[p])
                suggested == EmittedPlans[p].suggested_topup_kopecks
            IN  /\ suggested % Increment = 0
                /\ CoversShortfall(suggested, camp)
                /\ ~CoversShortfall(suggested - Increment, camp)

(***************************************************************************)
(* Claims about the direction and the size of the new bid, properties of   *)
(* SpecEngine                                                              *)
(***************************************************************************)

\* C28: the action of every emitted recommendation agrees with the direction
\* of the change: a decrease has a new bid below the current bid and a
\* negative delta_kopecks, an increase a new bid above it and a positive one.
C28_ActionMatchesDirection ==
    Emitted =>
        /\ EmittedRec.action = "decrease" =>
               /\ EmittedRec.new_bid_kopecks < EmittedRec.current_bid_kopecks
               /\ EmittedRec.delta_kopecks < 0
        /\ EmittedRec.action = "increase" =>
               /\ EmittedRec.new_bid_kopecks > EmittedRec.current_bid_kopecks
               /\ EmittedRec.delta_kopecks > 0

\* C29: every emitted recommendation has a new bid of at least 1 kopeck.
C29_NewBidPositive ==
    Emitted => EmittedRec.new_bid_kopecks >= 1

(***************************************************************************)
(* Claims about the resolved period, properties of Spec                    *)
(***************************************************************************)

\* the calendar day after a day
NextDay(t) ==
    IF t[3] < DaysInMonth(t[1], t[2]) THEN <<t[1], t[2], t[3] + 1>>
    ELSE IF t[2] < 12 THEN <<t[1], t[2] + 1, 1>>
    ELSE <<t[1] + 1, 1, 1>>

\* C24: with neither --from nor --to the resolved range ends yesterday and
\* starts default length - 1 days before that; the date list of every
\* accepted range is the consecutive calendar days from start to end in
\* ascending order, as many as the day count, which is from 1 to 31.
C24_ResolvedRange ==
    ~IsNone(period) =>
        LET r == Val(period)
        IN  /\ r.days >= 1
            /\ r.days <= 31
            /\ Len(r.dates) = r.days
            /\ r.dates[1] = r.start
            /\ r.dates[r.days] = r.end
            /\ \A k \in 1..(r.days - 1) : r.dates[k + 1] = NextDay(r.dates[k])
            /\ (IsNone(opts.date_from) /\ IsNone(opts.date_to)) =>
                   /\ NextDay(r.end) = opts.today
                   /\ r.days = DefaultDays(wf)

\* a default range that starts in one year and ends in the next
C24_Witness ==
    /\ ~IsNone(period)
    /\ IsNone(opts.date_from)
    /\ IsNone(opts.date_to)
    /\ Val(period).start[1] < Val(period).end[1]
    /\ pc = "done"

(***************************************************************************)
(* Claims about the apply step, properties of Spec                         *)
(***************************************************************************)

\* bids-plan --apply has handed every chunk over and every call returned
Applied == wf = "bids_plan" /\ pc \in {"emit", "done"} /\ ~IsNone(api_result)

\* the bids submitted for a campaign as <<call, entry, place in the entry>>
SubmittedFor(cid) ==
    UNION {UNION {{<<k, e, b>> : b \in 1..Len(submitted[k][e].nm_bids)} :
                     e \in {f \in 1..Len(submitted[k]) : submitted[k][f].advert_id = cid}} :
              k \in 1..Len(submitted)}

\* C26: when every submit call succeeded, the product bids submitted for a
\* campaign, read in the order of the calls and of the entries of a call,
\* are the product bids of the campaign's payload entry: none is dropped,
\* none is there twice, none has changed place.
C26_ChunkingKeepsBids ==
    Applied =>
        /\ \A k \in 1..Len(submitted) : \A e \in 1..Len(submitted[k]) :
               \E q \in 1..Len(payload) : payload[q].advert_id = submitted[k][e].advert_id
        /\ \A q \in 1..Len(payload) :
               LET sent == SubmittedFor(payload[q].advert_id)
               IN  /\ Cardinality(sent) = Len(payload[q].nm_bids)
                   /\ \A t \in sent :
                          LET earlier == {u \in sent : u[1] < t[1] \/ (u[1] = t[1] /\ u[2] < t[2])}
                          IN  payload[q].nm_bids[Cardinality(earlier) + t[3]]
                                  = submitted[t[1]][t[2]].nm_bids[t[3]]

\* the apply step has finished for a payload with a campaign of more than 50
\* bids
C26_Witness ==
    /\ Applied
    /\ pc = "done"
    /\ \E q \in 1..Len(payload) : Len(payload[q].nm_bids) > ChunkSize

(***************************************************************************)
(* call_with_retry on its own: one call, with every invocation of the      *)
(* remote function in the state.  The remote function returns or raises    *)
(* (it is called with _request_timeout) and time.sleep returns.            *)
(***************************************************************************)

\* cfg.retries as load_config leaves it: at least 1; the default is 3
RetriesValues == 1..(MaxRetries + 1)

\* the exceptions of the remote function: no status attribute, or a status
StatusValues ==
    {None, Some(401), Some(404), Some(429), Some(500), Some(502), Some(503), Some(504)}

\* what one invocation of fn did
Returned == [ok |-> TRUE, status |-> None]

Raised(status) == [ok |-> FALSE, status |-> status]

\* a retry test that does not look at the status
ShouldRetry_AnyStatus(status, tries, max_attempts) == tries < max_attempts - 1

\* status in {429, 500, 502, 503, 504} and attempt < max_attempts - 1,
\* tries being the value of attempt
ShouldRetry(status, tries, max_attempts) ==
    /\ ~IsNone(status)
    /\ Val(status) \in RetryableStatuses
    /\ tries < max_attempts - 1

RetryInit ==
    /\ EngineIdle
    /\ WorkflowIdle
    /\ BudgetIdle
    /\ AggIdle
    /\ ConfigIdle
    /\ rretries \in RetriesValues
    /\ rattempt = 0
    /\ rhist = <<>>
    /\ rpc = "call"
    /\ rerr = None

\* return fn(**kwargs)
RInvokeReturns ==
    /\ rpc = "call"
    /\ rhist' = Append(rhist, Returned)
    /\ rpc' = "returned"
    /\ UNCHANGED <<evars, wvars, bvars, avars, cvars, rretries, rattempt, rerr>>

\* fn(**kwargs) raises: the except clause
RInvokeRaises(status) ==
    /\ rpc = "call"
    /\ rhist' = Append(rhist, Raised(status))
    /\ IF ShouldRetry(status, rattempt, MaxAttempts([retries |-> rretries]))
       THEN rpc' = "sleep" /\ UNCHANGED rerr
       ELSE rerr' = Some(ErrorType(status)) /\ rpc' = "exited"
    /\ UNCHANGED <<evars, wvars, bvars, avars, cvars, rretries, rattempt>>

\* time.sleep(delay); continue
RSleep ==
    /\ rpc = "sleep"
    /\ rattempt' = rattempt + 1
    /\ rpc' = "call"
    /\ UNCHANGED <<evars, wvars, bvars, avars, cvars, rretries, rhist, rerr>>

RetryNext ==
    \/ RInvokeReturns
    \/ \E status \in StatusValues : RInvokeRaises(status)
    \/ RSleep

SpecRetry == RetryInit /\ [][RetryNext]_vars /\ WF_vars(RetryNext)

(***************************************************************************)
(* Claims about call_with_retry, properties of SpecRetry                   *)
(***************************************************************************)

\* the call has returned a result or has exited
RetryFinished == rpc \in {"returned", "exited"}

\* the invocation failed with one of the statuses that are retried
RetryableFailure(outcome) ==
    /\ ~outcome.ok
    /\ ~IsNone(outcome.status)
    /\ Val(outcome.status) \in {429, 500, 502, 503, 504}

\* the invocations so far, and where the call stands after them
RetryInvocationsInOrder ==
    LET n     == Len(rhist)
        limit == IF rretries >= 1 THEN rretries ELSE 1
    IN  /\ n <= limit
        /\ \A k \in 1..(n - 1) : RetryableFailure(rhist[k])
        /\ rpc = "call" => n < limit
        /\ rpc = "sleep" => n >= 1 /\ RetryableFailure(rhist[n]) /\ n < limit
        /\ rpc = "returned" => n >= 1 /\ rhist[n].ok /\ rerr = None
        /\ rpc = "exited" =>
               /\ n >= 1
               /\ ~rhist[n].ok
               /\ ~RetryableFailure(rhist[n]) \/ n = limit
               /\ ~IsNone(rerr)
        /\ n >= 1 /\ rhist[n].ok => rpc = "returned"
        /\ n >= 1 /\ ~rhist[n].ok /\ (~RetryableFailure(rhist[n]) \/ n = limit)
               => rpc = "exited"

\* C27: call_with_retry terminates; it invokes the remote function at least
\* once and at most max(1, retries) times, invokes it again only after a
\* failure with status 429, 500, 502, 503 or 504, returns the first
\* successful result, and on any other failure or on the last attempt prints
\* the error and exits without another invocation.
C27_RetryBoundedAndTerminates ==
    /\ []RetryInvocationsInOrder
    /\ <>RetryFinished

\* with retries = 3 the function failed three times with a retryable status
\* and the call exited after the third
C27_Witness ==
    /\ rretries = 3
    /\ Len(rhist) = 3
    /\ RetryableFailure(rhist[3])
    /\ rpc = "exited"

(***************************************************************************)
(* config show: config_as_dict on the configured token.  A text is the     *)
(* sequence of its characters.                                             *)
(***************************************************************************)

\* the longest token
MaxTokenLen == 9

\* the leading characters of the token that stay visible
VisibleChars == 8

\* the number of asterisks that close the masked token
MaskStars == 8

TokenChars == {"a", "b", "."}

\* cfg.api_token: not configured, or a text
Tokens ==
    {None} \cup {Some(t) : t \in UNION {[1..n -> TokenChars] : n \in 0..MaxTokenLen}}

\* f"{visible}...{'*' * 8}"
Masked(visible) == visible \o <<".", ".", ".">> \o [k \in 1..MaskStars |-> "*"]

\* config_as_dict: the api_token of the dict
config_as_dict(token, reveal) ==
    IF ~IsNone(token) /\ Val(token) # <<>> /\ ~reveal
    THEN Some(Masked(IF Len(Val(token)) >= VisibleChars
                     THEN SubSeq(Val(token), 1, VisibleChars)
                     ELSE Val(token)))
    ELSE token

ConfigInit ==
    /\ EngineIdle
    /\ WorkflowIdle
    /\ BudgetIdle
    /\ RetryIdle
    /\ AggIdle
    /\ ctoken \in Tokens
    /\ creveal \in BOOLEAN
    /\ cpc = "show"
    /\ cshown = None

\* print_json(config_as_dict(cfg, reveal=reveal))
CShow ==
    /\ cpc = "show"
    /\ cshown' = Some(config_as_dict(ctoken, creveal))
    /\ cpc' = "done"
    /\ UNCHANGED <<evars, wvars, bvars, rvars, avars, ctoken, creveal>>

ConfigNext == CShow

SpecConfig == ConfigInit /\ [][ConfigNext]_vars

(***************************************************************************)
(* Claims about config show, properties of SpecConfig                      *)
(***************************************************************************)

\* C30: config show without --reveal never prints a value from which the
\* whole token can be read: for every non-empty token the printed api_token
\* does not begin with the token.
C30_TokenNotShownInFull ==
    (cpc = "done" /\ ~creveal /\ ~IsNone(ctoken) /\ Val(ctoken) # <<>>) =>
        ~IsPrefix(Val(ctoken), Val(Val(cshown)))

(***************************************************************************)
(* The two record builders: _aggregate_keyword_rows_by_nm over a list of   *)
(* keyword rows, and _campaign_metrics over one campaign stat.             *)
(*                                                                         *)
(* Counts are whole numbers, spend is in kopecks and a position in         *)
(* hundredths, so that the sums of the code are the exact sums.            *)
(***************************************************************************)

\* rows of one list
MaxRows == 6

\* the clicks from which a row with no orders is a bad query
BadMinClicks == 10

\* the bad queries a group keeps
BadKeep == 5

KeywordRow(nm_id, views, clicks, orders, spend, avg_pos, norm_query) ==
    [advert_id |-> Some(1), nm_id |-> nm_id, views |-> views, clicks |-> clicks,
     orders |-> orders, spend |-> spend, avg_pos |-> avg_pos, norm_query |-> norm_query]

\* rows of every kind: with and without a position, with and without views,
\* clicks, orders and spend, of a second product, without a product id
RichRows ==
    <<KeywordRow(Some(1), 100, 12, 0, 4500, Some(200), "a"),
     KeywordRow(Some(1), 0, 10, 0, 4500, Some(500), "b"),
     KeywordRow(Some(1), 100, 12, 1, 4500, None, "c"),
     KeywordRow(Some(1), 50, 5, 0, 2000, Some(300), "d"),
     KeywordRow(Some(1), 0, 0, 0, 0, Some(900), "e"),
     KeywordRow(Some(1), 200, 12, 0, 4500, Some(200), "f"),
     KeywordRow(Some(2), 100, 20, 0, 6000, Some(400), "g"),
     KeywordRow(None, 100, 20, 0, 6000, Some(400), "h"),
     KeywordRow(Some(1), 30, 15, 0, 0, None, "i")>>

\* two bad queries of product 1, to fill a group with
PoorRows ==
    <<KeywordRow(Some(1), 40, 10, 0, 1000, None, "t"),
      KeywordRow(Some(1), 300, 30, 0, 9000, Some(100), "u")>>

\* the rows, each known by its place here
KeywordRows == RichRows \o PoorRows

\* the lists of n places with rich rows at the places in rich
PlaceListsAt(n, rich) ==
    {[k \in 1..n |-> IF k \in rich THEN f[k] ELSE g[k]] :
        f \in [rich -> 1..Len(RichRows)],
        g \in [(1..n) \ rich -> (Len(RichRows) + 1)..Len(KeywordRows)]}

\* the lists of at most n places, with rich rows at no, one or two of them
PlaceLists(n) ==
    UNION {UNION {PlaceListsAt(m, rich) : rich \in {{}} \cup {{p, q} : p, q \in 1..m}} :
              m \in 0..n}

\* the rows at the places
RowsAt(places) == [k \in 1..Len(places) |-> KeywordRows[places[k]]]

\* the stats _campaign_metrics is handed
MetricStats ==
    [views : {0, 2000}, clicks : {0, 40}, orders : {0, 2},
     sum : {0, 1400}, sum_price : {0, 2800}]

\* cur of a new key
NewCur(advert_id, nm_id) ==
    [advert_id |-> advert_id, nm_id |-> nm_id, views |-> 0, clicks |-> 0, orders |-> 0,
     spend_rub |-> 0, query_rows |-> 0, pos_sum |-> 0, pos_weight |-> 0,
     bad_queries |-> <<>>]

\* a weight that is the views alone
Weight_ViewsOnly(row) == row.views

\* weight = views or clicks
Weight(row) == IF row.views # 0 THEN row.views ELSE row.clicks

\* a bad query test that does not look at the orders
IsBadQuery_AnyOrders(row) == row.clicks >= BadMinClicks /\ row.spend > 0

\* clicks >= 10 and orders <= 0 and spend > 0
IsBadQuery(row) == row.clicks >= BadMinClicks /\ row.orders <= 0 /\ row.spend > 0

\* the body of the first loop after cur is found
Accumulate(cur, row) ==
    LET counted == ~IsNone(row.avg_pos) /\ Weight(row) > 0
    IN  [cur EXCEPT
            !.views = @ + row.views,
            !.clicks = @ + row.clicks,
            !.orders = @ + row.orders,
            !.spend_rub = @ + row.spend,
            !.query_rows = @ + 1,
            !.pos_sum = IF counted THEN @ + Val(row.avg_pos) * Weight(row) ELSE @,
            !.pos_weight = IF counted THEN @ + Weight(row) ELSE @,
            !.bad_queries = IF IsBadQuery(row)
                            THEN Append(@, [query |-> row.norm_query,
                                            clicks |-> row.clicks,
                                            spend_rub |-> row.spend])
                            ELSE @]

\* one pass of the first loop: grouped after the row
AddRow(grouped, row) ==
    IF IsNone(row.advert_id) \/ IsNone(row.nm_id) THEN grouped
    ELSE LET advert_id == Val(row.advert_id)
             nm_id     == Val(row.nm_id)
             at        == {k \in 1..Len(grouped) :
                              grouped[k].advert_id = advert_id /\ grouped[k].nm_id = nm_id}
         IN  IF at = {}
             THEN Append(grouped, Accumulate(NewCur(advert_id, nm_id), row))
             ELSE [k \in 1..Len(grouped) |->
                      IF k \in at THEN Accumulate(grouped[k], row) ELSE grouped[k]]

\* the order of sorted(..., key=(spend_rub, clicks), reverse=True)
BadBefore(a, b) ==
    \/ a.spend_rub > b.spend_rub
    \/ a.spend_rub = b.spend_rub /\ a.clicks > b.clicks

\* sorted(..., reverse=True): stable, equal keys keep their order
SortBad(bad) ==
    LET n == Len(bad)
        place == <<>> \o [q \in 1..n |->
                     Cardinality({r \in 1..n :
                         \/ BadBefore(bad[r], bad[q])
                         \/ ~BadBefore(bad[q], bad[r]) /\ r <= q})]
    IN  [p \in 1..n |-> bad[CHOOSE q \in 1..n : place[q] = p]]

\* bad[:5] of the sorted candidates
TopBad(bad) == SubSeq(SortBad(bad), 1, Min(Len(bad), BadKeep))

\* the second loop: one group finalized
Finalize(cur) ==
    FinalizePerf(cur.views, cur.clicks, cur.orders, cur.spend_rub, cur.pos_sum, cur.pos_weight)
    @@ [advert_id |-> cur.advert_id, nm_id |-> cur.nm_id, query_rows |-> cur.query_rows,
        bad_queries |-> TopBad(cur.bad_queries)]

\* grouped after the first loop over rows
RECURSIVE Grouped(_)
Grouped(rows) ==
    IF rows = <<>> THEN <<>>
    ELSE AddRow(Grouped(SubSeq(rows, 1, Len(rows) - 1)), rows[Len(rows)])

\* the groups _aggregate_keyword_rows_by_nm returns for rows
Aggregated(rows) == {Finalize(cur) : cur \in Range(Grouped(rows))}

AggInit ==
    /\ EngineIdle
    /\ WorkflowIdle
    /\ BudgetIdle
    /\ RetryIdle
    /\ ConfigIdle
    /\ \/ /\ \E places \in PlaceLists(MaxRows) : arows = RowsAt(places)
          /\ astat = StatOf(2, 1400, 2800)
       \/ /\ \E places \in PlaceLists(1) : arows = RowsAt(places)
          /\ astat \in MetricStats
    /\ ai = 1
    /\ agrouped = <<>>
    /\ apc = "rows"
    /\ ametrics = None

\* for row in rows: one row
ARow ==
    /\ apc = "rows"
    /\ ai <= Len(arows)
    /\ agrouped' = AddRow(agrouped, arows[ai])
    /\ ai' = ai + 1
    /\ UNCHANGED <<evars, wvars, bvars, rvars, cvars, arows, astat, apc, ametrics>>

\* for cur in grouped.values(): every group
AFinalize ==
    /\ apc = "rows"
    /\ ai > Len(arows)
    /\ agrouped' = [k \in 1..Len(agrouped) |-> Finalize(agrouped[k])]
    /\ apc' = "metrics"
    /\ UNCHANGED <<evars, wvars, bvars, rvars, cvars, arows, astat, ai, ametrics>>

\* _campaign_metrics(stat)
AMetrics ==
    /\ apc = "metrics"
    /\ ametrics' = Some(_campaign_metrics(astat))
    /\ apc' = "done"
    /\ UNCHANGED <<evars, wvars, bvars, rvars, cvars, arows, astat, ai, agrouped>>

AggNext ==
    \/ ARow
    \/ AFinalize
    \/ AMetrics

SpecAgg == AggInit /\ [][AggNext]_vars

(***************************************************************************)
(* Claims about the two record builders, properties of SpecAgg             *)
(***************************************************************************)

\* the groups are finalized
Finalized == apc \in {"metrics", "done"}

\* C21: in every aggregated group and in every campaign metrics record a
\* ratio is None exactly when its denominator is zero: CTR with no views,
\* CPC with no clicks, CPA with no orders (never 0 for a spend without
\* orders), ROAS with no spend, ACOS with no revenue.
C21_RatioUndefinedIffNoDenominator ==
    /\ Finalized =>
           \A k \in 1..Len(agrouped) :
               /\ IsNone(agrouped[k].ctr) <=> agrouped[k].views = 0
               /\ IsNone(agrouped[k].cpc_rub) <=> agrouped[k].clicks = 0
               /\ IsNone(agrouped[k].cpa_rub) <=> agrouped[k].orders = 0
    /\ ~IsNone(ametrics) =>
           /\ IsNone(Val(ametrics).ctr) <=> astat.views = 0
           /\ IsNone(Val(ametrics).cpc_rub) <=> astat.clicks = 0
           /\ IsNone(Val(ametrics).cpa_rub) <=> astat.orders = 0
           /\ IsNone(Val(ametrics).roas) <=> astat.sum <= 0
           /\ IsNone(Val(ametrics).acos) <=> astat.sum_price <= 0

\* a group and a campaign that both spent without an order
C21_Witness ==
    /\ apc = "done"
    /\ \E k \in 1..Len(agrouped) :
           agrouped[k].orders = 0 /\ agrouped[k].spend_rub > 0 /\ IsNone(agrouped[k].cpa_rub)
    /\ astat.orders = 0
    /\ astat.sum > 0
    /\ IsNone(Val(ametrics).cpa_rub)

\* the rows of a group that count as bad queries, as the entries they make
Qualifying(advert_id, nm_id) ==
    LET own == SelectSeq(arows, LAMBDA row :
                   /\ row.advert_id = Some(advert_id)
                   /\ row.nm_id = Some(nm_id)
                   /\ row.clicks >= 10
                   /\ row.orders = 0
                   /\ row.spend > 0)
    IN  [k \in 1..Len(own) |->
            [query |-> own[k].norm_query, clicks |-> own[k].clicks, spend_rub |-> own[k].spend]]

\* how often an entry is in a list
Times(entry, list) == Cardinality({k \in 1..Len(list) : list[k] = entry})

\* a comes before b by spend descending, then clicks descending
HigherBad(a, b) ==
    a.spend_rub > b.spend_rub \/ (a.spend_rub = b.spend_rub /\ a.clicks > b.clicks)

\* C22: the bad_queries of a group are rows of the group with clicks >= 10,
\* no orders and spend > 0, ordered by spend descending, then clicks
\* descending, and they are the first 5 of all such rows in that order, or
\* all of them when there are fewer.
C22_BadQueriesTopFive ==
    Finalized =>
        \A g \in 1..Len(agrouped) :
            LET bad == agrouped[g].bad_queries
                all == Qualifying(agrouped[g].advert_id, agrouped[g].nm_id)
            IN  /\ Len(bad) = Min(Len(all), 5)
                /\ \A k \in 1..Len(bad) : Times(bad[k], bad) <= Times(bad[k], all)
                /\ \A k \in 1..(Len(bad) - 1) : ~HigherBad(bad[k + 1], bad[k])
                /\ \A k \in 1..Len(all) :
                       Times(all[k], bad) < Times(all[k], all) => ~HigherBad(all[k], bad[5])

\* a group with six bad queries of which the cheapest is left out
C22_Witness ==
    /\ apc = "done"
    /\ \E g \in 1..Len(agrouped) :
           LET bad == agrouped[g].bad_queries
               all == Qualifying(agrouped[g].advert_id, agrouped[g].nm_id)
           IN  /\ Len(bad) = 5
               /\ Len(all) = 6
               /\ HigherBad(bad[1], bad[5])
               /\ \E k \in 1..6 : Times(all[k], bad) = 0

\* the rows of a group that have a position and a weight above 0, the
\* weight being the views, or the clicks when there are no views
Positioned(advert_id, nm_id) ==
    SelectSeq(arows, LAMBDA row :
        /\ row.advert_id = Some(advert_id)
        /\ row.nm_id = Some(nm_id)
        /\ ~IsNone(row.avg_pos)
        /\ (IF row.views > 0 THEN row.views ELSE row.clicks) > 0)

\* the sum of position * weight over rows, and the sum of the weights
RECURSIVE PosTimesWeight(_)
PosTimesWeight(rows) ==
    IF rows = <<>> THEN 0
    ELSE Val(Head(rows).avg_pos)
             * (IF Head(rows).views > 0 THEN Head(rows).views ELSE Head(rows).clicks)
         + PosTimesWeight(Tail(rows))

RECURSIVE Weights(_)
Weights(rows) ==
    IF rows = <<>> THEN 0
    ELSE (IF Head(rows).views > 0 THEN Head(rows).views ELSE Head(rows).clicks)
         + Weights(Tail(rows))

\* C23 as stated: the average position of a group is sum(pos * w) / sum(w)
\* over the group's rows with a position and w > 0, and None without such a
\* row.
C23_AvgPosIsWeightedMean ==
    Finalized =>
        \A g \in 1..Len(agrouped) :
            LET rows == Positioned(agrouped[g].advert_id, agrouped[g].nm_id)
            IN  /\ IsNone(agrouped[g].avg_pos) <=> rows = <<>>
                /\ rows # <<>> =>
                       Val(agrouped[g].avg_pos) * Weights(rows) = PosTimesWeight(rows)

\* C23, amended: the average position of a group is sum(pos * w) / sum(w)
\* over the group's rows with a position and w > 0, rounded to 2 decimals,
\* and None without such a row.
C23_AvgPosIsRoundedWeightedMean ==
    Finalized =>
        \A g \in 1..Len(agrouped) :
            LET rows == Positioned(agrouped[g].advert_id, agrouped[g].nm_id)
            IN  /\ IsNone(agrouped[g].avg_pos) <=> rows = <<>>
                /\ rows # <<>> =>
                       2 * Abs(Val(agrouped[g].avg_pos) * Weights(rows) - PosTimesWeight(rows))
                           <= Weights(rows)

\* rows (views 100, position 2.00) and (views 0, clicks 10, position 5.00)
\* gave the average position 2.27
C23_Witness ==
    /\ apc = "done"
    /\ Len(arows) = 2
    /\ arows[1].views = 100 /\ arows[1].avg_pos = Some(200)
    /\ arows[2].views = 0 /\ arows[2].clicks = 10 /\ arows[2].avg_pos = Some(500)
    /\ agrouped[1].avg_pos = Some(227)

\* rows with the rows at the places k and k + 1 exchanged
Swap(rows, k) ==
    [p \in 1..Len(rows) |->
        IF p = k THEN rows[k + 1] ELSE IF p = k + 1 THEN rows[k] ELSE rows[p]]

\* C25: the aggregator returns the same groups for every
\* permutation of its rows: sums, row count, average position and
\* bad_queries.  Every list of rows of the model is reached from every
\* permutation of it by exchanging neighbours, and every such list is a list
\* of the model.
C25_OrderIndependent ==
    apc = "done" =>
        \A k \in 1..(Len(arows) - 1) : Aggregated(Swap(arows, k)) = Range(agrouped)

====
